---------------------------- MODULE Spec2Model ----------------------------
(***************************************************************************)
(* Model of the motion-control core of the wall-climbing line follower:    *)
(* the PID engine (pid.c), the track-element recognizer (element.c), the   *)
(* start-key state machine (key.c), the control orchestrator (system.c),   *)
(* the inductor fusion (inductor.c) and the command link (bluetooth.c).    *)
(*                                                                         *)
(* Conventions                                                             *)
(*  - C structs are records, C functions are operators from the old struct *)
(*    value (and the arguments) to the new struct value, actions apply     *)
(*    them to the global instances.                                        *)
(*  - float gains are held in tenths (the unit System_PIDCallback takes);  *)
(*    every gain of the model is a multiple of 0.5 or a power of two, for  *)
(*    which the single-precision products of pid.c are exact.              *)
(*  - `int` is 16 bits wide on the Keil C251 target (README 2.1), so the   *)
(*    error differences of pid.c are computed modulo 2^16.                 *)
(***************************************************************************)
EXTENDS Integers, Sequences, FiniteSets, TLC

VARIABLES
    pid,        \* a stand-alone PID_Controller_t driven through the pid.c API
    g_system,   \* SystemControl_t g_system                      (system.c)
    key,        \* the static variables of key.c
    g_element,  \* ElementData_t g_element plus the detectors' statics
    hw,         \* last command given to the motor / fan collaborators
    g_inductor, \* InductorData_t g_inductor plus the calibration statics
    g_encoder,  \* EncoderData_t g_encoder                       (encoder.c)
    bt,         \* the receive statics of bluetooth.c and the position of
                \* the main loop inside Bluetooth_Process
    obs         \* observation of the last call: operation, arguments, result

vars == <<pid, g_system, key, g_element, hw, g_inductor, g_encoder, bt, obs>>

(***************************************************************************)
(* Integer helpers                                                         *)
(***************************************************************************)
INT32_MAX == 2147483647
INT32_MIN == (-2147483647) - 1

Abs(x) == IF x < 0 THEN -x ELSE x

\* C integer division truncates toward zero
TDiv(a, b) == IF (a >= 0) = (b > 0) THEN Abs(a) \div Abs(b) ELSE -(Abs(a) \div Abs(b))

\* value of an int16 / 16-bit int expression whose mathematical value is x
Wrap16(x) == ((x + 32768) % 65536) - 32768

\* uint8 store
Wrap8(x) == x % 256

\* int32 addition with two's-complement wrap-around, computed without ever
\* leaving the 32-bit range
Add32(a, b) ==
    IF a > 0 /\ b > 0 /\ a > INT32_MAX - b
    THEN ((a - INT32_MAX) - 1) + ((b - INT32_MAX) - 1)
    ELSE IF a < 0 /\ b < 0 /\ a < INT32_MIN - b
    THEN ((a + INT32_MAX) + 1) + ((b + INT32_MAX) + 1)
    ELSE a + b

(***************************************************************************)
(* (int32)(K * (float)x) of pid.c, for a gain of k10 tenths.  The product  *)
(* is exact for the gains of the model; the conversion truncates toward    *)
(* zero.  A product outside the int32 range makes the conversion undefined:*)
(* ub selects what the build produces, saturation ("sat") or the integer   *)
(* indefinite value INT32_MIN ("min").                                     *)
(***************************************************************************)
HugeGain10 == 10485760          \* 2^20 as a gain in tenths (10 * 2^20)

FloatToIntUB == {"sat", "min"}

GainTerm(k10, x, ub) ==
    IF k10 = HugeGain10
    THEN IF Abs(x) < 2048
         THEN 1048576 * x
         ELSE IF ub = "sat" THEN (IF x > 0 THEN INT32_MAX ELSE INT32_MIN)
              ELSE INT32_MIN
    ELSE TDiv(k10 * x, 10)

(***************************************************************************)
(* pid.c                                                                   *)
(***************************************************************************)
PID_Init(kp, ki, kd, out_max) ==
    [ Kp |-> kp, Ki |-> ki, Kd |-> kd,
      error_now |-> 0, error_last |-> 0, error_prev |-> 0,
      integral |-> 0, integral_max |-> TDiv(out_max, 2),
      output |-> 0, output_max |-> out_max ]

PID_IncrementalAccumulate_SkipsLast(p, target, feedback, ub) ==
    LET e_prev == p.error_last
        e_last == p.error_now
        e_now  == Wrap16(target - feedback)
        p_term == GainTerm(p.Kp, Wrap16(e_now - e_prev), ub)
        i_term == GainTerm(p.Ki, e_now, ub)
        d_term == GainTerm(p.Kd, Wrap16(Wrap16(e_now - Wrap16(2 * e_last)) + e_prev), ub)
        delta_output == Add32(Add32(p_term, i_term), d_term)
    IN  [p EXCEPT !.error_prev = e_prev, !.error_last = e_last, !.error_now = e_now,
                  !.output = Add32(p.output, delta_output)]

\* pid.c 61-78: shift the error history, compute the three terms, accumulate
PID_IncrementalAccumulate(p, target, feedback, ub) ==
    LET e_prev == p.error_last
        e_last == p.error_now
        e_now  == Wrap16(target - feedback)
        p_term == GainTerm(p.Kp, Wrap16(e_now - e_last), ub)
        i_term == GainTerm(p.Ki, e_now, ub)
        d_term == GainTerm(p.Kd, Wrap16(Wrap16(e_now - Wrap16(2 * e_last)) + e_prev), ub)
        delta_output == Add32(Add32(p_term, i_term), d_term)
    IN  [p EXCEPT !.error_prev = e_prev, !.error_last = e_last, !.error_now = e_now,
                  !.output = Add32(p.output, delta_output)]

PID_Incremental_NoLowerClamp(p, target, feedback, ub) ==
    LET q == PID_IncrementalAccumulate(p, target, feedback, ub)
    IN  IF q.output > q.output_max THEN [q EXCEPT !.output = q.output_max] ELSE q

PID_Incremental(p, target, feedback, ub) ==
    LET q == PID_IncrementalAccumulate(p, target, feedback, ub)
    IN  IF q.output > q.output_max THEN [q EXCEPT !.output = q.output_max]
        ELSE IF q.output < -q.output_max THEN [q EXCEPT !.output = -q.output_max]
        ELSE q

PID_PositionalIntegrate_NoLowerClamp(p, target, feedback) ==
    LET e_last == p.error_now
        e_now  == Wrap16(target - feedback)
        sum    == p.integral + e_now
        integ  == IF sum > p.integral_max THEN p.integral_max ELSE sum
    IN  [p EXCEPT !.error_last = e_last, !.error_now = e_now, !.integral = integ]

\* pid.c 109-124: shift the error, accumulate and clamp the integral
PID_PositionalIntegrate(p, target, feedback) ==
    LET e_last == p.error_now
        e_now  == Wrap16(target - feedback)
        sum    == p.integral + e_now
        integ  == IF sum > p.integral_max THEN p.integral_max
                  ELSE IF sum < -p.integral_max THEN -p.integral_max
                  ELSE sum
    IN  [p EXCEPT !.error_last = e_last, !.error_now = e_now, !.integral = integ]

PID_Positional(p, target, feedback, ub) ==
    LET q == PID_PositionalIntegrate(p, target, feedback)
        p_term == GainTerm(q.Kp, q.error_now, ub)
        i_term == GainTerm(q.Ki, q.integral, ub)
        d_term == GainTerm(q.Kd, Wrap16(q.error_now - q.error_last), ub)
        out    == Add32(Add32(p_term, i_term), d_term)
    IN  [q EXCEPT !.output = IF out > q.output_max THEN q.output_max
                             ELSE IF out < -q.output_max THEN -q.output_max
                             ELSE out]

PID_Reset_AsInit(p) == PID_Init(0, 0, 0, p.output_max)

PID_Reset_KeepsHistory(p) ==
    [p EXCEPT !.error_now = 0, !.integral = 0, !.output = 0]

PID_Reset(p) ==
    [p EXCEPT !.error_now = 0, !.error_last = 0, !.error_prev = 0,
              !.integral = 0, !.output = 0]

PID_SetParams_AndReset(p, kp, ki, kd) ==
    [PID_Reset(p) EXCEPT !.Kp = kp, !.Ki = ki, !.Kd = kd]

PID_SetParams(p, kp, ki, kd) ==
    [p EXCEPT !.Kp = kp, !.Ki = ki, !.Kd = kd]


(***************************************************************************)
(* Stand-alone PID controller driven through the pid.c API                 *)
(***************************************************************************)
\* gains Kp, Ki, Kd in tenths: the speed-loop and direction-loop defaults
\* (README 4.2), all terms disabled, and a gain large enough to take every
\* term out of the int32 range
PidGainSamples == { <<20, 5, 0>>, <<50, 0, 30>>, <<0, 0, 0>>,
                    <<HugeGain10, HugeGain10, HugeGain10>> }

\* out_max arguments of PID_Init
PidOutMaxSamples == {0, 5}

\* int16 targets and feedbacks; their differences cover 0, +-1, the int16
\* extremes and the wrap-around of target - feedback
PidTargets   == {0, 1, 32767}
PidFeedbacks == {0, -32768}

\* length of a zero-error run after which the run counter stops counting
ZeroRunCap == 2

PidObs(op, a, b, c, ret, zrun, dirty) ==
    [op |-> op, a |-> a, b |-> b, c |-> c, ret |-> ret, prev |-> obs.op,
     zrun |-> zrun, dirty |-> dirty]

PidDirty(p) == p.error_now # 0 /\ p.error_last # 0 /\ p.integral # 0 /\ p.output # 0

PID_IncrementalCall ==
    \E t \in PidTargets, f \in PidFeedbacks, ub \in FloatToIntUB :
        /\ pid' = PID_Incremental(pid, t, f, ub)
        /\ obs' = PidObs("PID_Incremental", t, f, 0, pid'.output,
                         IF t = f /\ obs.zrun >= 0
                         THEN (IF obs.zrun < ZeroRunCap THEN obs.zrun + 1 ELSE obs.zrun)
                         ELSE -1,
                         FALSE)
        /\ UNCHANGED <<g_system, key, g_element, hw, g_inductor, g_encoder, bt>>

PID_PositionalCall ==
    \E t \in PidTargets, f \in PidFeedbacks, ub \in FloatToIntUB :
        /\ pid' = PID_Positional(pid, t, f, ub)
        /\ obs' = PidObs("PID_Positional", t, f, 0, pid'.output, -1, FALSE)
        /\ UNCHANGED <<g_system, key, g_element, hw, g_inductor, g_encoder, bt>>

PID_ResetCall ==
    /\ pid' = PID_Reset(pid)
    /\ obs' = PidObs("PID_Reset", 0, 0, 0, 0, 0, PidDirty(pid))
    /\ UNCHANGED <<g_system, key, g_element, hw, g_inductor, g_encoder, bt>>

PID_SetParamsCall ==
    \E g \in PidGainSamples :
        /\ pid' = PID_SetParams(pid, g[1], g[2], g[3])
        /\ obs' = PidObs("PID_SetParams", g[1], g[2], g[3], 0, obs.zrun,
                         PidDirty(pid) /\ <<pid.Kp, pid.Ki, pid.Kd>> # g)
        /\ UNCHANGED <<g_system, key, g_element, hw, g_inductor, g_encoder, bt>>

(***************************************************************************)
(* element.h: detection thresholds                                         *)
(***************************************************************************)
ZIGZAG_ERROR_JUMP_THRESHOLD == 40
ZIGZAG_JUMP_TIME_WINDOW == 3
TURN90_LOW_THRESHOLD == 15
TURN90_HIGH_THRESHOLD == 70
TURN90_GYRO_THRESHOLD == 50
TURN90_STEP_OUTPUT == 2000
HEXAGON_ENTRY_SUM_THRESHOLD == 150
HEXAGON_YAW_COMPLETE_ANGLE == 300
CROSS_BOTH_HIGH_THRESHOLD == 80
CROSS_HOLD_TIME == 4
OFFLINE_EMERGENCY_TIME == 20
OFFLINE_WALL_PITCH_THRESHOLD == 20

(***************************************************************************)
(* element.c.  The function-static counters of Element_DetectHexagon       *)
(* (entry_cnt, side_accumulate) and Element_DetectCross (cross_cnt) are    *)
(* fields of the same record as g_element.                                 *)
(***************************************************************************)
Element_Init ==
    [ current_element |-> "ELEM_NONE", state |-> "ELEM_STATE_IDLE",
      roundabout_dir |-> "ROUNDABOUT_NONE", yaw_integral |-> 0,
      distance_cnt |-> 0, distance_target |-> 0,
      offline_cnt |-> 0, last_valid_error |-> 0, emergency_flag |-> 0,
      error |-> [i \in 0..7 |-> 0], index |-> 0,
      direction_offset |-> 0, speed_scale |-> 100,
      entry_cnt |-> 0, side_accumulate |-> 0, cross_cnt |-> 0 ]

Element_CalcErrorJump(el) ==
    LET current_idx == (el.index + 7) % 8
        prev_idx    == (el.index + 7 - ZIGZAG_JUMP_TIME_WINDOW) % 8
    IN  Wrap16(el.error[current_idx] - el.error[prev_idx])

Element_HandleOffline_PitchClears(el, is_online, pitch_angle, error) ==
    IF is_online # 0
    THEN [el EXCEPT !.offline_cnt = 0, !.last_valid_error = error, !.emergency_flag = 0]
    ELSE LET cnt == Wrap8(el.offline_cnt + 1)
         IN  [el EXCEPT !.offline_cnt = cnt,
                        !.emergency_flag =
                            IF cnt > OFFLINE_EMERGENCY_TIME /\
                               Abs(pitch_angle) > OFFLINE_WALL_PITCH_THRESHOLD
                            THEN 1 ELSE 0]

Element_HandleOffline(el, is_online, pitch_angle, error) ==
    IF is_online # 0
    THEN [el EXCEPT !.offline_cnt = 0, !.last_valid_error = error, !.emergency_flag = 0]
    ELSE LET cnt == Wrap8(el.offline_cnt + 1)
         IN  IF cnt > OFFLINE_EMERGENCY_TIME /\
                Abs(pitch_angle) > OFFLINE_WALL_PITCH_THRESHOLD
             THEN [el EXCEPT !.offline_cnt = cnt, !.emergency_flag = 1]
             ELSE [el EXCEPT !.offline_cnt = cnt]

Element_DetectZigzag_KeepsScale(el, error, left_mag, right_mag) ==
    IF Abs(Element_CalcErrorJump(el)) > ZIGZAG_ERROR_JUMP_THRESHOLD /\
       (left_mag + right_mag) > 40
    THEN [el EXCEPT !.current_element = "ELEM_ZIGZAG_45",
                    !.state = "ELEM_STATE_ENTER"]
    ELSE el

Element_DetectZigzag(el, error, left_mag, right_mag) ==
    IF Abs(Element_CalcErrorJump(el)) > ZIGZAG_ERROR_JUMP_THRESHOLD /\
       (left_mag + right_mag) > 40
    THEN [el EXCEPT !.current_element = "ELEM_ZIGZAG_45",
                    !.state = "ELEM_STATE_ENTER", !.speed_scale = 85]
    ELSE el

Element_DetectTurn90_KeepsScale(el, error, left_mag, right_mag, gyro_z) ==
    LET is_left_low   == left_mag < TURN90_LOW_THRESHOLD
        is_right_low  == right_mag < TURN90_LOW_THRESHOLD
        is_left_high  == left_mag > TURN90_HIGH_THRESHOLD
        is_right_high == right_mag > TURN90_HIGH_THRESHOLD
    IN  IF ((is_left_low /\ is_right_high) \/ (is_right_low /\ is_left_high)) /\
           Abs(TDiv(gyro_z, 16)) < TURN90_GYRO_THRESHOLD
        THEN [el EXCEPT !.current_element = "ELEM_TURN_90",
                        !.state = "ELEM_STATE_ENTER"]
        ELSE el

Element_DetectTurn90(el, error, left_mag, right_mag, gyro_z) ==
    LET is_left_low   == left_mag < TURN90_LOW_THRESHOLD
        is_right_low  == right_mag < TURN90_LOW_THRESHOLD
        is_left_high  == left_mag > TURN90_HIGH_THRESHOLD
        is_right_high == right_mag > TURN90_HIGH_THRESHOLD
    IN  IF ((is_left_low /\ is_right_high) \/ (is_right_low /\ is_left_high)) /\
           Abs(TDiv(gyro_z, 16)) < TURN90_GYRO_THRESHOLD
        THEN [el EXCEPT !.current_element = "ELEM_TURN_90",
                        !.state = "ELEM_STATE_ENTER", !.speed_scale = 70]
        ELSE el

Element_DetectHexagon(el, error, left_mag, right_mag, sum, gyro_z, encoder_delta) ==
    IF sum > HEXAGON_ENTRY_SUM_THRESHOLD \div 2
    THEN LET cnt == Wrap8(el.entry_cnt + 1)
             acc == Wrap16(el.side_accumulate + Wrap16(left_mag - right_mag))
         IN  IF cnt > 5
             THEN IF acc > 100
                  THEN [el EXCEPT !.current_element = "ELEM_HEXAGON",
                                  !.roundabout_dir = "ROUNDABOUT_RIGHT",
                                  !.state = "ELEM_STATE_ENTER", !.speed_scale = 75,
                                  !.entry_cnt = 0, !.side_accumulate = 0]
                  ELSE IF acc < -100
                  THEN [el EXCEPT !.current_element = "ELEM_HEXAGON",
                                  !.roundabout_dir = "ROUNDABOUT_LEFT",
                                  !.state = "ELEM_STATE_ENTER", !.speed_scale = 75,
                                  !.entry_cnt = 0, !.side_accumulate = 0]
                  ELSE [el EXCEPT !.entry_cnt = 0, !.side_accumulate = 0]
             ELSE [el EXCEPT !.entry_cnt = cnt, !.side_accumulate = acc]
    ELSE [el EXCEPT !.entry_cnt = 0, !.side_accumulate = 0]

Element_DetectCross_NoEnter(el, left_mag, right_mag, sum) ==
    IF left_mag > CROSS_BOTH_HIGH_THRESHOLD /\ right_mag > CROSS_BOTH_HIGH_THRESHOLD
    THEN LET cnt == Wrap8(el.cross_cnt + 1)
         IN  IF cnt >= CROSS_HOLD_TIME
             THEN [el EXCEPT !.current_element = "ELEM_CROSS", !.speed_scale = 90,
                             !.cross_cnt = 0]
             ELSE [el EXCEPT !.cross_cnt = cnt]
    ELSE [el EXCEPT !.cross_cnt = 0]

Element_DetectCross(el, left_mag, right_mag, sum) ==
    IF left_mag > CROSS_BOTH_HIGH_THRESHOLD /\ right_mag > CROSS_BOTH_HIGH_THRESHOLD
    THEN LET cnt == Wrap8(el.cross_cnt + 1)
         IN  IF cnt >= CROSS_HOLD_TIME
             THEN [el EXCEPT !.current_element = "ELEM_CROSS",
                             !.state = "ELEM_STATE_ENTER", !.speed_scale = 90,
                             !.cross_cnt = 0]
             ELSE [el EXCEPT !.cross_cnt = cnt]
    ELSE [el EXCEPT !.cross_cnt = 0]

Element_StateIdle_CrossFirst(el, in) ==
    LET e1 == Element_DetectCross(el, in.left, in.right, in.sum)
        e2 == IF e1.current_element = "ELEM_NONE"
              THEN Element_DetectHexagon(e1, in.error, in.left, in.right, in.sum,
                                         in.gyro_z, in.enc) ELSE e1
        e3 == IF e2.current_element = "ELEM_NONE"
              THEN Element_DetectTurn90(e2, in.error, in.left, in.right, in.gyro_z) ELSE e2
    IN  IF e3.current_element = "ELEM_NONE"
        THEN Element_DetectZigzag(e3, in.error, in.left, in.right) ELSE e3

\* element.c 114-133: the detectors in priority order
Element_StateIdle(el, in) ==
    LET e1 == Element_DetectHexagon(el, in.error, in.left, in.right, in.sum,
                                    in.gyro_z, in.enc)
        e2 == IF e1.current_element = "ELEM_NONE"
              THEN Element_DetectCross(e1, in.left, in.right, in.sum) ELSE e1
        e3 == IF e2.current_element = "ELEM_NONE"
              THEN Element_DetectTurn90(e2, in.error, in.left, in.right, in.gyro_z) ELSE e2
    IN  IF e3.current_element = "ELEM_NONE"
        THEN Element_DetectZigzag(e3, in.error, in.left, in.right) ELSE e3

Element_StateRunning_ExitsOnYawAlone(el, in) ==
    LET e1 == [el EXCEPT !.distance_cnt = el.distance_cnt + in.enc,
                         !.yaw_integral = el.yaw_integral + TDiv(in.gyro_z, 16)]
    IN  CASE e1.current_element = "ELEM_ZIGZAG_45" ->
               IF Abs(Element_CalcErrorJump(e1)) < ZIGZAG_ERROR_JUMP_THRESHOLD \div 2
               THEN [e1 EXCEPT !.state = "ELEM_STATE_EXIT"] ELSE e1
          [] e1.current_element = "ELEM_TURN_90" ->
               LET e2 == [e1 EXCEPT !.direction_offset =
                              IF in.left > in.right THEN -TURN90_STEP_OUTPUT
                              ELSE TURN90_STEP_OUTPUT]
               IN  IF Abs(in.error) < 30 /\ in.left > 30 /\ in.right > 30
                   THEN [e2 EXCEPT !.state = "ELEM_STATE_EXIT"] ELSE e2
          [] e1.current_element = "ELEM_HEXAGON" ->
               LET e2 == [e1 EXCEPT !.direction_offset =
                              IF e1.roundabout_dir = "ROUNDABOUT_LEFT" THEN -800 ELSE 800]
               IN  IF Abs(e2.yaw_integral) > HEXAGON_YAW_COMPLETE_ANGLE * 16
                   THEN [e2 EXCEPT !.state = "ELEM_STATE_EXIT"] ELSE e2
          [] e1.current_element = "ELEM_CROSS" ->
               LET e2 == [e1 EXCEPT !.direction_offset = 0,
                                    !.distance_cnt = e1.distance_cnt + in.enc]
               IN  IF e2.distance_cnt > 100
                   THEN [e2 EXCEPT !.state = "ELEM_STATE_EXIT"] ELSE e2
          [] OTHER -> [e1 EXCEPT !.state = "ELEM_STATE_EXIT"]

Element_StateRunning_TurnExitsOnError(el, in) ==
    LET e1 == [el EXCEPT !.distance_cnt = el.distance_cnt + in.enc,
                         !.yaw_integral = el.yaw_integral + TDiv(in.gyro_z, 16)]
    IN  CASE e1.current_element = "ELEM_ZIGZAG_45" ->
               IF Abs(Element_CalcErrorJump(e1)) < ZIGZAG_ERROR_JUMP_THRESHOLD \div 2
               THEN [e1 EXCEPT !.state = "ELEM_STATE_EXIT"] ELSE e1
          [] e1.current_element = "ELEM_TURN_90" ->
               LET e2 == [e1 EXCEPT !.direction_offset =
                              IF in.left > in.right THEN -TURN90_STEP_OUTPUT
                              ELSE TURN90_STEP_OUTPUT]
               IN  IF Abs(in.error) < 30
                   THEN [e2 EXCEPT !.state = "ELEM_STATE_EXIT"] ELSE e2
          [] e1.current_element = "ELEM_HEXAGON" ->
               LET e2 == [e1 EXCEPT !.direction_offset =
                              IF e1.roundabout_dir = "ROUNDABOUT_LEFT" THEN -800 ELSE 800]
               IN  IF Abs(e2.yaw_integral) > HEXAGON_YAW_COMPLETE_ANGLE * 16 /\
                      Abs(in.error) < 30 /\ in.sum > 40
                   THEN [e2 EXCEPT !.state = "ELEM_STATE_EXIT"] ELSE e2
          [] e1.current_element = "ELEM_CROSS" ->
               LET e2 == [e1 EXCEPT !.direction_offset = 0,
                                    !.distance_cnt = e1.distance_cnt + in.enc]
               IN  IF e2.distance_cnt > 100
                   THEN [e2 EXCEPT !.state = "ELEM_STATE_EXIT"] ELSE e2
          [] OTHER -> [e1 EXCEPT !.state = "ELEM_STATE_EXIT"]

\* element.c 144-222: odometry, then the action of the current element
Element_StateRunning(el, in) ==
    LET e1 == [el EXCEPT !.distance_cnt = el.distance_cnt + in.enc,
                         !.yaw_integral = el.yaw_integral + TDiv(in.gyro_z, 16)]
    IN  CASE e1.current_element = "ELEM_ZIGZAG_45" ->
               IF Abs(Element_CalcErrorJump(e1)) < ZIGZAG_ERROR_JUMP_THRESHOLD \div 2
               THEN [e1 EXCEPT !.state = "ELEM_STATE_EXIT"] ELSE e1
          [] e1.current_element = "ELEM_TURN_90" ->
               LET e2 == [e1 EXCEPT !.direction_offset =
                              IF in.left > in.right THEN -TURN90_STEP_OUTPUT
                              ELSE TURN90_STEP_OUTPUT]
               IN  IF Abs(in.error) < 30 /\ in.left > 30 /\ in.right > 30
                   THEN [e2 EXCEPT !.state = "ELEM_STATE_EXIT"] ELSE e2
          [] e1.current_element = "ELEM_HEXAGON" ->
               LET e2 == [e1 EXCEPT !.direction_offset =
                              IF e1.roundabout_dir = "ROUNDABOUT_LEFT" THEN -800 ELSE 800]
               IN  IF Abs(e2.yaw_integral) > HEXAGON_YAW_COMPLETE_ANGLE * 16 /\
                      Abs(in.error) < 30 /\ in.sum > 40
                   THEN [e2 EXCEPT !.state = "ELEM_STATE_EXIT"] ELSE e2
          [] e1.current_element = "ELEM_CROSS" ->
               LET e2 == [e1 EXCEPT !.direction_offset = 0,
                                    !.distance_cnt = e1.distance_cnt + in.enc]
               IN  IF e2.distance_cnt > 100
                   THEN [e2 EXCEPT !.state = "ELEM_STATE_EXIT"] ELSE e2
          [] OTHER -> [e1 EXCEPT !.state = "ELEM_STATE_EXIT"]

Element_Precheck_WritesNextSlot(el, in) ==
    LET e1 == [el EXCEPT !.error[(el.index + 1) % 8] = in.error,
                         !.index = (el.index + 1) % 8]
    IN  Element_HandleOffline(e1, in.online, in.pitch, in.error)

\* in: [error, left, right, sum, online, gyro_z, pitch, enc], the arguments
\* inductor_error, left_magnitude, right_magnitude, inductor_sum, is_online,
\* gyro_z, pitch_angle, encoder_delta of Element_Update.
\* element.c 91-100: history ring buffer, then the offline check
Element_Precheck(el, in) ==
    LET e1 == [el EXCEPT !.error[el.index] = in.error,
                         !.index = (el.index + 1) % 8]
    IN  Element_HandleOffline(e1, in.online, in.pitch, in.error)

Element_StateMachine_DetectsWhileRunning(e2, in) ==
    CASE e2.state = "ELEM_STATE_IDLE" -> Element_StateIdle(e2, in)
      [] e2.state = "ELEM_STATE_ENTER" ->
           [e2 EXCEPT !.state = "ELEM_STATE_RUNNING",
                      !.distance_cnt = 0, !.yaw_integral = 0]
      [] e2.state = "ELEM_STATE_RUNNING" ->
           Element_StateRunning(
               Element_DetectTurn90(e2, in.error, in.left, in.right, in.gyro_z), in)
      [] e2.state = "ELEM_STATE_EXIT" ->
           [e2 EXCEPT !.state = "ELEM_STATE_RECOVER"]
      [] OTHER ->
           [e2 EXCEPT !.current_element = "ELEM_NONE",
                      !.roundabout_dir = "ROUNDABOUT_NONE",
                      !.direction_offset = 0, !.speed_scale = 100,
                      !.distance_cnt = 0, !.yaw_integral = 0,
                      !.state = "ELEM_STATE_IDLE"]

Element_StateMachine_ExitSkipsRecover(e2, in) ==
    CASE e2.state = "ELEM_STATE_IDLE" -> Element_StateIdle(e2, in)
      [] e2.state = "ELEM_STATE_ENTER" ->
           [e2 EXCEPT !.state = "ELEM_STATE_RUNNING",
                      !.distance_cnt = 0, !.yaw_integral = 0]
      [] e2.state = "ELEM_STATE_RUNNING" -> Element_StateRunning(e2, in)
      [] OTHER ->
           [e2 EXCEPT !.current_element = "ELEM_NONE",
                      !.roundabout_dir = "ROUNDABOUT_NONE",
                      !.direction_offset = 0, !.speed_scale = 100,
                      !.distance_cnt = 0, !.yaw_integral = 0,
                      !.state = "ELEM_STATE_IDLE"]

Element_StateMachine_RecoverKeepsScale(e2, in) ==
    CASE e2.state = "ELEM_STATE_IDLE" -> Element_StateIdle(e2, in)
      [] e2.state = "ELEM_STATE_ENTER" ->
           [e2 EXCEPT !.state = "ELEM_STATE_RUNNING",
                      !.distance_cnt = 0, !.yaw_integral = 0]
      [] e2.state = "ELEM_STATE_RUNNING" -> Element_StateRunning(e2, in)
      [] e2.state = "ELEM_STATE_EXIT" ->
           [e2 EXCEPT !.state = "ELEM_STATE_RECOVER"]
      [] OTHER ->
           [e2 EXCEPT !.current_element = "ELEM_NONE",
                      !.roundabout_dir = "ROUNDABOUT_NONE",
                      !.direction_offset = 0,
                      !.distance_cnt = 0, !.yaw_integral = 0,
                      !.state = "ELEM_STATE_IDLE"]

\* element.c 111-243: the switch on g_element.state
Element_StateMachine(e2, in) ==
    CASE e2.state = "ELEM_STATE_IDLE" -> Element_StateIdle(e2, in)
      [] e2.state = "ELEM_STATE_ENTER" ->
           [e2 EXCEPT !.state = "ELEM_STATE_RUNNING",
                      !.distance_cnt = 0, !.yaw_integral = 0]
      [] e2.state = "ELEM_STATE_RUNNING" -> Element_StateRunning(e2, in)
      [] e2.state = "ELEM_STATE_EXIT" ->
           [e2 EXCEPT !.state = "ELEM_STATE_RECOVER"]
      [] e2.state = "ELEM_STATE_RECOVER" ->
           [e2 EXCEPT !.current_element = "ELEM_NONE",
                      !.roundabout_dir = "ROUNDABOUT_NONE",
                      !.direction_offset = 0, !.speed_scale = 100,
                      !.distance_cnt = 0, !.yaw_integral = 0,
                      !.state = "ELEM_STATE_IDLE"]
      [] OTHER -> [e2 EXCEPT !.state = "ELEM_STATE_IDLE"]

Element_Update_NoEmergencyGate(el, in) ==
    Element_StateMachine(Element_Precheck(el, in), in)

Element_Update(el, in) ==
    LET e2 == Element_Precheck(el, in)
    IN  IF e2.emergency_flag # 0 THEN e2 ELSE Element_StateMachine(e2, in)

Element_IsEmergency(el) == el.emergency_flag

(***************************************************************************)
(* key.c.  key.h is not part of the sources: the countdown is the 3 s of   *)
(* the file header, the debounce time is taken as two scan periods.  The   *)
(* mode switch (g_is_race_mode) and the buzzer have no effect on the       *)
(* control path and are left out.                                          *)
(***************************************************************************)
START_COUNTDOWN_MS == 3000
KEY_DEBOUNCE_TIME_MS == 20
KEY_SCAN_PERIOD_MS == 10

key_init ==
    [ g_car_state |-> "CAR_STATE_IDLE", g_countdown_ms |-> 0,
      g_start_key_pressed |-> 0, g_debounce_cnt |-> 0 ]

key_scan_debounce_RestartsCountdown(k, key_raw) ==
    IF key_raw # k.g_start_key_pressed
    THEN LET cnt == Wrap8(k.g_debounce_cnt + KEY_SCAN_PERIOD_MS)
         IN  IF cnt >= KEY_DEBOUNCE_TIME_MS
             THEN IF key_raw # 0 /\ k.g_car_state \in {"CAR_STATE_IDLE", "CAR_STATE_COUNTDOWN"}
                  THEN [k EXCEPT !.g_start_key_pressed = key_raw, !.g_debounce_cnt = 0,
                                 !.g_car_state = "CAR_STATE_COUNTDOWN",
                                 !.g_countdown_ms = START_COUNTDOWN_MS]
                  ELSE [k EXCEPT !.g_start_key_pressed = key_raw, !.g_debounce_cnt = 0]
             ELSE [k EXCEPT !.g_debounce_cnt = cnt]
    ELSE [k EXCEPT !.g_debounce_cnt = 0]

\* key.c 89-112: debounce of the start key, start of the countdown
key_scan_debounce(k, key_raw) ==
    IF key_raw # k.g_start_key_pressed
    THEN LET cnt == Wrap8(k.g_debounce_cnt + KEY_SCAN_PERIOD_MS)
         IN  IF cnt >= KEY_DEBOUNCE_TIME_MS
             THEN IF key_raw # 0 /\ k.g_car_state = "CAR_STATE_IDLE"
                  THEN [k EXCEPT !.g_start_key_pressed = key_raw, !.g_debounce_cnt = 0,
                                 !.g_car_state = "CAR_STATE_COUNTDOWN",
                                 !.g_countdown_ms = START_COUNTDOWN_MS]
                  ELSE [k EXCEPT !.g_start_key_pressed = key_raw, !.g_debounce_cnt = 0]
             ELSE [k EXCEPT !.g_debounce_cnt = cnt]
    ELSE [k EXCEPT !.g_debounce_cnt = 0]

\* key.c 114-139: the countdown
key_scan_countdown(k) ==
    IF k.g_car_state = "CAR_STATE_COUNTDOWN"
    THEN LET ms == IF k.g_countdown_ms > 0
                   THEN (k.g_countdown_ms - KEY_SCAN_PERIOD_MS) % 65536
                   ELSE k.g_countdown_ms
         IN  IF ms = 0
             THEN [k EXCEPT !.g_countdown_ms = ms, !.g_car_state = "CAR_STATE_RUNNING"]
             ELSE [k EXCEPT !.g_countdown_ms = ms]
    ELSE k

key_scan(k, key_raw) == key_scan_countdown(key_scan_debounce(k, key_raw))

key_car_should_run(k) == IF k.g_car_state = "CAR_STATE_RUNNING" THEN 1 ELSE 0

key_stop_car(k) == [k EXCEPT !.g_car_state = "CAR_STATE_STOPPED"]

key_reset_to_idle(k) == [k EXCEPT !.g_car_state = "CAR_STATE_IDLE", !.g_countdown_ms = 0]

(***************************************************************************)
(* system.c.  car_config.h is not part of the sources: the default gains   *)
(* are those of README 4.2 (in tenths), the output limits follow the PWM   *)
(* range of motor.h.                                                       *)
(***************************************************************************)
PID_SPEED_KP == 20
PID_SPEED_KI == 5
PID_SPEED_KD == 0
PID_DIRECTION_KP == 50
PID_DIRECTION_KI == 0
PID_DIRECTION_KD == 30
PID_SPEED_OUT_MAX == 10000
PID_DIRECTION_OUT_MAX == 100
MOTOR_SPEED_MAX == 10000

LIMIT_RANGE(x, lo, hi) == IF x < lo THEN lo ELSE IF x > hi THEN hi ELSE x

System_Init ==
    [ state |-> "SYS_STATE_IDLE", target_speed |-> 0,
      s_battery_check_cnt |-> 0, debug_update_cnt |-> 0,
      pitch_angle |-> 0, roll_angle |-> 0, yaw_rate |-> 0,
      motor_left_pwm |-> 0, motor_right_pwm |-> 0,
      pid_speed_left  |-> PID_Init(PID_SPEED_KP, PID_SPEED_KI, PID_SPEED_KD,
                                   PID_SPEED_OUT_MAX),
      pid_speed_right |-> PID_Init(PID_SPEED_KP, PID_SPEED_KI, PID_SPEED_KD,
                                   PID_SPEED_OUT_MAX),
      pid_direction   |-> PID_Init(PID_DIRECTION_KP, PID_DIRECTION_KI, PID_DIRECTION_KD,
                                   PID_DIRECTION_OUT_MAX) ]

\* commands to the motor and fan collaborators after System_Init
Hw_Init == [ motor |-> [cmd |-> "Motor_Init", left |-> 0, right |-> 0],
             fan |-> "Fan_Init" ]

System_Start(sys) ==
    IF sys.state # "SYS_STATE_RUNNING"
    THEN [sys EXCEPT !.pid_speed_left  = PID_Reset(sys.pid_speed_left),
                     !.pid_speed_right = PID_Reset(sys.pid_speed_right),
                     !.pid_direction   = PID_Reset(sys.pid_direction),
                     !.target_speed = IF sys.target_speed = 0 THEN 50
                                      ELSE sys.target_speed,
                     !.state = "SYS_STATE_RUNNING"]
    ELSE sys

System_Stop(sys) == [sys EXCEPT !.state = "SYS_STATE_STOPPED"]

System_SetTargetSpeed(sys, speed) == [sys EXCEPT !.target_speed = LIMIT_RANGE(speed, 0, 200)]

System_PIDCallback(sys, kp_x10, ki_x10, kd_x10) ==
    [sys EXCEPT !.pid_direction = PID_SetParams(sys.pid_direction, kp_x10, ki_x10, kd_x10)]

\* system.c 544-578; BT_CMD_FAN and BT_CMD_DEBUG leave g_system alone
System_CmdCallback(sys, cmd, value) ==
    CASE cmd = "BT_CMD_START" -> System_Start(sys)
      [] cmd = "BT_CMD_STOP" -> System_Stop(sys)
      [] cmd = "BT_CMD_SPEED" -> System_SetTargetSpeed(sys, value)
      [] OTHER -> sys

\* system.c 369-375: pitch from the accelerometer, yaw rate from the gyro
System_ReadAttitude(sys, s) ==
    [sys EXCEPT !.pitch_angle = IF s.acc_z # 0
                                THEN Wrap16(TDiv(s.acc_x * 57, s.acc_z))
                                ELSE sys.pitch_angle,
                !.yaw_rate = TDiv(s.gyro_z, 16)]

(***************************************************************************)
(* System_Control after the key_car_should_run() gate (system.c 348-434).  *)
(* s: [left_speed, right_speed, error, acc_x, acc_z, gyro_z] is what       *)
(* Encoder_Update, Inductor_Update and the IMU deliver on this tick.       *)
(***************************************************************************)
System_ControlPipeline(sys, s) ==
    LET s1 == System_ReadAttitude(sys, s)
        dir == PID_Positional(s1.pid_direction, 0, s.error, "sat")
        direction_output == Wrap16(dir.output)
        speed_left_target  == LIMIT_RANGE(Wrap16(s1.target_speed + direction_output),
                                          -MOTOR_SPEED_MAX, MOTOR_SPEED_MAX)
        speed_right_target == LIMIT_RANGE(Wrap16(s1.target_speed - direction_output),
                                          -MOTOR_SPEED_MAX, MOTOR_SPEED_MAX)
        left  == PID_Incremental(s1.pid_speed_left, speed_left_target, s.left_speed, "sat")
        right == PID_Incremental(s1.pid_speed_right, speed_right_target, s.right_speed, "sat")
    IN  [s1 EXCEPT !.pid_direction = dir, !.pid_speed_left = left,
                   !.pid_speed_right = right,
                   !.motor_left_pwm = Wrap16(left.output),
                   !.motor_right_pwm = Wrap16(right.output)]

\* the command System_Control gives the motors (system.c 417) and the fan (422)
System_ControlOutput(sys) ==
    [ motor |-> [cmd |-> "Motor_SetSpeed", left |-> sys.motor_left_pwm,
                 right |-> sys.motor_right_pwm],
      fan |-> "Fan_AutoAdjust" ]

System_Control(sys, k, s) ==
    IF key_car_should_run(k) = 0 THEN sys ELSE System_ControlPipeline(sys, s)

(***************************************************************************)
(* encoder.c.  left_raw and right_raw are the signed pulse counts of the   *)
(* hardware counters since they were last cleared, after the direction     *)
(* reversal of the mounting.                                               *)
(***************************************************************************)
Encoder_Init == [left_count |-> 0, right_count |-> 0, left_speed |-> 0, right_speed |-> 0]

Encoder_Update(left_raw, right_raw) ==
    [left_count |-> left_raw, right_count |-> right_raw,
     left_speed |-> left_raw, right_speed |-> right_raw]

(***************************************************************************)
(* inductor.c.  Channels 0..3 are left x, left y, right x, right y.        *)
(* car_config.h is not part of the sources: the calibration defaults are   *)
(* the full range of the 12-bit ADC of Inductor_Init.                      *)
(***************************************************************************)
INDUCTOR_OFFLINE_THRESHOLD == 20

s_calibration_min == [ch \in 0..3 |-> 0]
s_calibration_max == [ch \in 0..3 |-> 4095]

fast_sqrt_TwoIterations(val) ==
    IF val = 0 THEN 0
    ELSE IF val = 1 THEN 1
    ELSE LET start  == IF val < 256 THEN 8
                       ELSE IF val < 4096 THEN 32
                       ELSE IF val < 65536 THEN 128
                       ELSE 256
             temp   == (start + val \div start) \div 2
         IN  ((temp + val \div temp) \div 2) % 65536

\* inductor.c 48-80: three Newton steps from a start chosen by magnitude
fast_sqrt(val) ==
    IF val = 0 THEN 0
    ELSE IF val = 1 THEN 1
    ELSE LET start  == IF val < 256 THEN 8
                       ELSE IF val < 4096 THEN 32
                       ELSE IF val < 65536 THEN 128
                       ELSE 256
             temp   == (start + val \div start) \div 2
             second == (temp + val \div temp) \div 2
         IN  ((second + val \div second) \div 2) % 65536

Inductor_Init ==
    [ raw  |-> [ch \in 0..3 |-> 0],
      norm |-> [ch \in 0..3 |-> 0],
      left_magnitude |-> 0, right_magnitude |-> 0,
      error |-> 0, sum |-> 0, is_online |-> 0,
      calibration_min |-> s_calibration_min,
      calibration_max |-> s_calibration_max ]

\* what the uint8 result of normalize_inductor can be when max_val = min_val
\* and the division by zero is undefined
NormalizeUB == {0, 100, 255}

normalize_inductor_NoUpperClamp(raw, min_val, max_val, ub) ==
    LET limited == IF raw < min_val THEN min_val ELSE raw
        num     == ((limited - min_val) % 65536) * 100
        den     == (max_val - min_val) % 65536
    IN  IF den = 0 THEN ub ELSE (num \div den) % 256

\* inductor.c 126-138: the differences are 16-bit unsigned, the quotient is
\* stored in a uint8
normalize_inductor(raw, min_val, max_val, ub) ==
    LET low     == IF raw < min_val THEN min_val ELSE raw
        limited == IF low > max_val THEN max_val ELSE low
        num     == ((limited - min_val) % 65536) * 100
        den     == (max_val - min_val) % 65536
    IN  IF den = 0 THEN ub ELSE (num \div den) % 256

Inductor_Fuse_NoNegation(ind) ==
    LET sum  == ind.left_magnitude + ind.right_magnitude
        diff == ind.left_magnitude - ind.right_magnitude
    IN  IF sum < INDUCTOR_OFFLINE_THRESHOLD
        THEN [ind EXCEPT !.sum = Wrap8(sum), !.is_online = 0, !.error = 0]
        ELSE [ind EXCEPT !.sum = Wrap8(sum), !.is_online = 1,
                         !.error = TDiv(Wrap16(diff * 100), sum + 1)]

Inductor_Fuse_OfflineKeepsError(ind) ==
    LET sum  == ind.left_magnitude + ind.right_magnitude
        diff == ind.left_magnitude - ind.right_magnitude
    IN  [ind EXCEPT !.sum = Wrap8(sum),
                    !.is_online = IF sum < INDUCTOR_OFFLINE_THRESHOLD THEN 0 ELSE 1,
                    !.error = TDiv(Wrap16(-Wrap16(diff * 100)), sum + 1)]

\* inductor.c 192-212 (step 4 of Inductor_Update): sum, offline test, error
Inductor_Fuse(ind) ==
    LET sum  == ind.left_magnitude + ind.right_magnitude
        diff == ind.left_magnitude - ind.right_magnitude
    IN  IF sum < INDUCTOR_OFFLINE_THRESHOLD
        THEN [ind EXCEPT !.sum = Wrap8(sum), !.is_online = 0, !.error = 0]
        ELSE [ind EXCEPT !.sum = Wrap8(sum), !.is_online = 1,
                         !.error = TDiv(Wrap16(-Wrap16(diff * 100)), sum + 1)]

\* inductor.c 174-187 (step 3): vector magnitude of one side, limited to 100
Inductor_Magnitude(x, y) ==
    LET m == fast_sqrt(x * x + y * y) % 256
    IN  IF m > 100 THEN 100 ELSE m

\* adc: the four filtered samples of this tick, ub: see NormalizeUB
Inductor_Update(ind, adc, ub) ==
    LET norm == [ch \in 0..3 |->
                    normalize_inductor(adc[ch], ind.calibration_min[ch],
                                       ind.calibration_max[ch], ub)]
    IN  Inductor_Fuse([ind EXCEPT !.raw = adc, !.norm = norm,
                                  !.left_magnitude = Inductor_Magnitude(norm[0], norm[1]),
                                  !.right_magnitude = Inductor_Magnitude(norm[2], norm[3])])

Inductor_GetError(ind) == ind.error

Inductor_IsOnline(ind) == ind.is_online

Inductor_GetSum(ind) == ind.sum

Inductor_SetCalibration(ind, channel, min_val, max_val) ==
    IF channel < 4
    THEN [ind EXCEPT !.calibration_min[channel] = min_val,
                     !.calibration_max[channel] = max_val]
    ELSE ind

(***************************************************************************)
(* SpecPID: one controller, initialised by PID_Init with out_max >= 0 and  *)
(* then driven by any sequence of PID_Incremental, PID_Positional,         *)
(* PID_Reset and PID_SetParams calls.                                      *)
(***************************************************************************)
(***************************************************************************)
(* bluetooth.c (receive path).  Bytes are named: "NUL" is 0, "LF" and "CR" *)
(* the frame terminators.  car_config.h is not part of the sources: the    *)
(* receive buffer is explored at the size below.  bt.pc and bt.i are the   *)
(* position of the main loop inside Bluetooth_Process and its loop index;  *)
(* Bluetooth_RxHandler runs in the UART interrupt, between any two         *)
(* statements of the main loop.                                            *)
(***************************************************************************)
BLUETOOTH_RX_BUF_SIZE == 8

Bluetooth_Init ==
    [ s_rx_buffer |-> [i \in 0..(BLUETOOTH_RX_BUF_SIZE - 1) |-> "NUL"],
      s_rx_index |-> 0, s_rx_complete |-> 0, pc |-> "return", i |-> 0 ]

Bluetooth_RxHandler_NoCompleteCheck(b, dat) ==
    IF dat \in {"LF", "CR"}
    THEN IF b.s_rx_index > 0
         THEN [b EXCEPT !.s_rx_buffer[b.s_rx_index] = "NUL", !.s_rx_complete = 1]
         ELSE b
    ELSE IF b.s_rx_index < BLUETOOTH_RX_BUF_SIZE - 1
         THEN [b EXCEPT !.s_rx_buffer[b.s_rx_index] = dat,
                        !.s_rx_index = Wrap8(b.s_rx_index + 1)]
         ELSE b

\* part_000 171-196
Bluetooth_RxHandler(b, dat) ==
    IF b.s_rx_complete # 0 THEN b
    ELSE IF dat \in {"LF", "CR"}
    THEN IF b.s_rx_index > 0
         THEN [b EXCEPT !.s_rx_buffer[b.s_rx_index] = "NUL", !.s_rx_complete = 1]
         ELSE b
    ELSE IF b.s_rx_index < BLUETOOTH_RX_BUF_SIZE - 1
         THEN [b EXCEPT !.s_rx_buffer[b.s_rx_index] = dat,
                        !.s_rx_index = Wrap8(b.s_rx_index + 1)]
         ELSE b

\* part_000 206-299 on frames over "$", "G", "O": the command decoded from
\* the NUL-terminated string in the buffer; only "$GO" names a command
parse_command(buf) ==
    IF buf[0] = "$" /\ buf[1] = "G" /\ buf[2] = "O" /\ buf[3] = "NUL"
    THEN "BT_CMD_START" ELSE "BT_CMD_UNKNOWN"

InitRest ==
    /\ g_system = System_Init
    /\ key = key_init
    /\ g_element = Element_Init
    /\ hw = Hw_Init
    /\ g_inductor = Inductor_Init
    /\ g_encoder = Encoder_Init
    /\ bt = Bluetooth_Init

InitPID ==
    /\ pid \in { PID_Init(g[1], g[2], g[3], m) : g \in PidGainSamples,
                                                  m \in PidOutMaxSamples }
    /\ obs = [op |-> "PID_Init", a |-> 0, b |-> 0, c |-> 0, ret |-> 0,
              prev |-> "none", zrun |-> -1, dirty |-> FALSE]
    /\ InitRest

NextPID ==
    \/ PID_IncrementalCall
    \/ PID_PositionalCall
    \/ PID_ResetCall
    \/ PID_SetParamsCall

SpecPID == InitPID /\ [][NextPID]_vars

PidComputeOps == {"PID_Incremental", "PID_Positional"}

(***************************************************************************)
(* C1: after any sequence of PID_Incremental, PID_Positional,              *)
(* PID_SetParams and PID_Reset calls on a controller initialised with      *)
(* out_max >= 0, the output stored and the value returned by every compute *)
(* call are at most output_max in magnitude.                               *)
(***************************************************************************)
C1_OutputWithinOutputMax ==
    /\ pid.output <= pid.output_max
    /\ pid.output >= -pid.output_max
    /\ obs.op \in PidComputeOps =>
         obs.ret = pid.output /\ obs.ret <= pid.output_max /\ obs.ret >= -pid.output_max

\* an incremental call with every term out of the int32 range, left clamped
\* at the negative limit
C1_Witness ==
    /\ obs.op = "PID_Incremental"
    /\ pid.Kp = HugeGain10
    /\ pid.error_now = -32768
    /\ pid.output_max > 0
    /\ pid.output = -pid.output_max

(***************************************************************************)
(* C2: after every PID_Positional call, however long an error of either    *)
(* sign is sustained, |integral| <= integral_max, and integral_max is the  *)
(* out_max / 2 set by PID_Init.                                            *)
(***************************************************************************)
C2_IntegralWithinIntegralMax ==
    /\ pid.integral_max = TDiv(pid.output_max, 2)
    /\ pid.integral <= pid.integral_max
    /\ pid.integral >= -pid.integral_max

\* a positional call that left the integral saturated at the negative clamp
C2_Witness ==
    /\ obs.op = "PID_Positional"
    /\ obs.prev = "PID_Positional"
    /\ pid.error_now < 0
    /\ pid.integral_max > 0
    /\ pid.integral = -pid.integral_max

(***************************************************************************)
(* C3: after PID_Reset, every PID_Incremental call of an unbroken run of   *)
(* calls with target = feedback returns 0 and leaves output at 0, whatever *)
(* the gains (PID_SetParams may retune in between).                        *)
(***************************************************************************)
C3_ZeroErrorKeepsOutputZero ==
    (obs.op = "PID_Incremental" /\ obs.zrun >= 1) => (obs.ret = 0 /\ pid.output = 0)

\* the second zero-error call of such a run, with non-zero gains
C3_Witness ==
    /\ obs.op = "PID_Incremental"
    /\ obs.zrun >= 2
    /\ pid.Kp # 0 /\ pid.Ki # 0
    /\ obs.ret = 0

(***************************************************************************)
(* C4: PID_Reset zeroes error_now, error_last, error_prev and integral and *)
(* leaves Kp, Ki, Kd, output_max and integral_max as they were, from any   *)
(* controller state.                                                       *)
(***************************************************************************)
C4_ResetFrame ==
    [][ obs'.op = "PID_Reset" =>
          /\ pid'.error_now = 0 /\ pid'.error_last = 0 /\ pid'.error_prev = 0
          /\ pid'.integral = 0
          /\ pid'.Kp = pid.Kp /\ pid'.Ki = pid.Ki /\ pid'.Kd = pid.Kd
          /\ pid'.output_max = pid.output_max
          /\ pid'.integral_max = pid.integral_max ]_vars

\* a reset of a controller whose error history, integral and output were
\* all non-zero
C4_Witness ==
    /\ obs.op = "PID_Reset"
    /\ obs.dirty
    /\ pid.Kp # 0

(***************************************************************************)
(* C5: PID_SetParams replaces Kp, Ki and Kd and nothing else (error        *)
(* history, integral, output and both clamps are unchanged), and the next  *)
(* compute call works with the new gains.                                  *)
(***************************************************************************)
C5_Clamp(p, v) ==
    IF v > p.output_max THEN p.output_max
    ELSE IF v < -p.output_max THEN -p.output_max ELSE v

\* u = Kp e + Ki integral + Kd (e - e_last) with the gains kp, ki, kd
C5_PositionalLaw(p, q, kp, ki, kd) ==
    C5_Clamp(p, TDiv(kp * q.error_now, 10) + TDiv(ki * q.integral, 10)
                + TDiv(kd * Wrap16(q.error_now - p.error_now), 10))

\* output + Kp (e - e1) + Ki e + Kd (e - 2 e1 + e2) with the gains kp, ki, kd
C5_IncrementalLaw(p, q, kp, ki, kd) ==
    C5_Clamp(p, p.output + TDiv(kp * Wrap16(q.error_now - p.error_now), 10)
                + TDiv(ki * q.error_now, 10)
                + TDiv(kd * Wrap16(q.error_now - 2 * p.error_now + p.error_last), 10))

C5_SetParamsFrame ==
    [][ /\ obs'.op = "PID_SetParams" =>
             pid' = [pid EXCEPT !.Kp = obs'.a, !.Ki = obs'.b, !.Kd = obs'.c]
        /\ (obs.op = "PID_SetParams" /\ obs.a # HugeGain10 /\ obs'.op = "PID_Positional") =>
             pid'.output = C5_PositionalLaw(pid, pid', obs.a, obs.b, obs.c)
        /\ (obs.op = "PID_SetParams" /\ obs.a # HugeGain10 /\ obs'.op = "PID_Incremental") =>
             pid'.output = C5_IncrementalLaw(pid, pid', obs.a, obs.b, obs.c) ]_vars

\* a compute call right after a retuning that changed the gains of a
\* controller with non-zero history, integral and output
C5_Witness ==
    /\ obs.prev = "PID_SetParams"
    /\ obs.op = "PID_Positional"
    /\ pid.error_last # 0
    /\ pid.integral # 0
    /\ pid.output # 0 /\ pid.output < pid.output_max /\ pid.output > -pid.output_max

(***************************************************************************)
(* SpecOffline: the recognizer, from Element_Init, fed one Element_Update  *)
(* per tick with readings on the line, at a right-angle turn, and off the  *)
(* line (on the floor or on the wall).  obs.run counts the consecutive     *)
(* offline ticks, this one included.                                       *)
(***************************************************************************)
Reading(error, left, right, online, pitch, enc) ==
    [error |-> error, left |-> left, right |-> right, sum |-> left + right,
     online |-> online, gyro_z |-> 0, pitch |-> pitch, enc |-> enc]

\* fused readings as Inductor_Update produces them: error = -(l-r)*100/(l+r+1),
\* offline (and error 0) when l + r < 20
OnlineReadings ==
    { Reading(0, 50, 50, 1, 0, 10),        \* straight, on the floor
      Reading(0, 50, 50, 1, 30, 10),       \* straight, on the wall
      Reading(79, 10, 90, 1, 0, 0) }       \* right-angle turn signature
OfflineReadings ==
    { Reading(0, 5, 5, 0, 0, 0),           \* line lost on the floor
      Reading(0, 5, 5, 0, -30, 10) }       \* line lost on the wall

\* offline runs are explored up to this length
MaxOfflineRun == 23

\* ticks are explored while they leave the odometer of the element within this
MaxOdometer == 30

InitOffline ==
    /\ pid = PID_Init(PID_SPEED_KP, PID_SPEED_KI, PID_SPEED_KD, PID_SPEED_OUT_MAX)
    /\ obs = [op |-> "Element_Init", in |-> Reading(0, 0, 0, 1, 0, 0), run |-> 0,
              was_emergency |-> 0]
    /\ InitRest

Element_UpdateTick(in, run) ==
    /\ g_element.distance_cnt + in.enc <= MaxOdometer
    /\ g_element' = Element_Update(g_element, in)
    /\ obs' = [op |-> "Element_Update", in |-> in, run |-> run,
               was_emergency |-> g_element.emergency_flag]
    /\ UNCHANGED <<pid, g_system, key, hw, g_inductor, g_encoder, bt>>

Element_UpdateOnline ==
    \E in \in OnlineReadings : Element_UpdateTick(in, 0)

Element_UpdateOffline ==
    \E in \in OfflineReadings :
        /\ obs.run < MaxOfflineRun
        /\ Element_UpdateTick(in, obs.run + 1)

NextOffline ==
    \/ Element_UpdateOnline
    \/ Element_UpdateOffline

SpecOffline == InitOffline /\ [][NextOffline]_vars

(***************************************************************************)
(* SpecOfflineLong: the same recognizer fed only straight-line and offline *)
(* readings, with offline runs longer than the range of the 8-bit          *)
(* offline_cnt.                                                            *)
(***************************************************************************)
MaxLongOfflineRun == 258

\* on the line, centred or slightly off centre, on the floor
StraightReadings == { Reading(0, 50, 50, 1, 0, 0), Reading(5, 47, 53, 1, 0, 0) }

\* off the line, on the floor or on the wall, the wheels not turning
StalledOfflineReadings == { Reading(0, 5, 5, 0, 0, 0), Reading(0, 5, 5, 0, -30, 0) }

Element_UpdateStraight ==
    \E in \in StraightReadings : Element_UpdateTick(in, 0)

Element_UpdateLongOffline ==
    \E in \in StalledOfflineReadings :
        /\ obs.run < MaxLongOfflineRun
        /\ Element_UpdateTick(in, obs.run + 1)

NextOfflineLong ==
    \/ Element_UpdateStraight
    \/ Element_UpdateLongOffline

SpecOfflineLong == InitOffline /\ [][NextOfflineLong]_vars

(***************************************************************************)
(* C7: on any tick at which the reading has been offline for more than     *)
(* OFFLINE_EMERGENCY_TIME consecutive ticks, this one included, and        *)
(* |pitch_angle| > OFFLINE_WALL_PITCH_THRESHOLD, Element_Update leaves     *)
(* emergency set, for offline runs of any length.                          *)
(***************************************************************************)
C7_LongOfflineOnWallSetsEmergency ==
    (/\ obs.op = "Element_Update"
     /\ obs.in.online = 0
     /\ obs.run > OFFLINE_EMERGENCY_TIME
     /\ Abs(obs.in.pitch) > OFFLINE_WALL_PITCH_THRESHOLD)
    => g_element.emergency_flag = 1

(***************************************************************************)
(* C8: every Element_Update with is_online = 1 ends with offline_cnt = 0,  *)
(* emergency clear and last_valid_error = the tick's steering error; an    *)
(* emergency that is set stays set on every offline tick whatever the      *)
(* pitch, and only an online tick clears it.                               *)
(***************************************************************************)
C8_OnlineClearsOfflineKeeps ==
    [][ obs'.op = "Element_Update" =>
          /\ obs'.in.online = 1 =>
               /\ g_element'.offline_cnt = 0
               /\ g_element'.emergency_flag = 0
               /\ g_element'.last_valid_error = obs'.in.error
          /\ (g_element.emergency_flag = 1 /\ obs'.in.online = 0) =>
               g_element'.emergency_flag = 1
          /\ (g_element.emergency_flag = 1 /\ g_element'.emergency_flag = 0) =>
               obs'.in.online = 1 ]_vars

\* a single online tick, with a non-zero error, that clears an emergency
C8_Witness ==
    /\ obs.op = "Element_Update"
    /\ obs.was_emergency = 1
    /\ obs.in.online = 1
    /\ obs.in.error # 0
    /\ g_element.last_valid_error = obs.in.error
    /\ g_element.emergency_flag = 0
    /\ g_element.offline_cnt = 0

(***************************************************************************)
(* C9: on a tick that leaves emergency set, Element_Update changes nothing *)
(* of the element state machine (state, current_element, roundabout_dir,   *)
(* direction_offset, speed_scale, yaw_integral, distance_cnt, the          *)
(* detectors' counters): only the error history and the offline counter    *)
(* advance.                                                                *)
(***************************************************************************)
C9_EmergencyFreezesStateMachine ==
    [][ (obs'.op = "Element_Update" /\ g_element'.emergency_flag = 1) =>
          g_element' = [g_element EXCEPT
                          !.error[g_element.index] = obs'.in.error,
                          !.index = (g_element.index + 1) % 8,
                          !.offline_cnt = (g_element.offline_cnt + 1) % 256,
                          !.emergency_flag = 1] ]_vars

\* an emergency tick inside a running right-angle turn, with a non-zero
\* encoder delta and a detector counter that is not at rest
C9_Witness ==
    /\ obs.op = "Element_Update"
    /\ g_element.emergency_flag = 1
    /\ obs.run > OFFLINE_EMERGENCY_TIME + 1
    /\ obs.in.enc # 0
    /\ g_element.state = "ELEM_STATE_RUNNING"
    /\ g_element.current_element = "ELEM_TURN_90"
    /\ g_element.entry_cnt # 0
    /\ g_element.distance_cnt # 0

(***************************************************************************)
(* SpecRun: the start key, the start/stop commands and the 5 ms control    *)
(* task.  key_scan sees the key pressed or released; key_stop_car and      *)
(* key_reset_to_idle are the key module's calls that end a run and re-arm  *)
(* the start key; each control tick gets one of the sensor readings.       *)
(***************************************************************************)
Sensors(left_speed, right_speed, error) ==
    [left_speed |-> left_speed, right_speed |-> right_speed, error |-> error,
     acc_x |-> 0, acc_z |-> 100, gyro_z |-> 0]

\* at rest off centre, and on the centre line at the default target speed
RunSensors == { Sensors(0, 0, 10), Sensors(50, 50, 0) }

\* control ticks that execute the pipeline are explored up to this number
MaxControlTicks == 2

\* some error history or integral is left in the controller
PID_HasHistory(p) ==
    p.error_now # 0 \/ p.error_last # 0 \/ p.error_prev # 0 \/ p.integral # 0

System_HasHistory(sys) ==
    \/ PID_HasHistory(sys.pid_speed_left)
    \/ PID_HasHistory(sys.pid_speed_right)
    \/ PID_HasHistory(sys.pid_direction)

\* System_Start (system.c 280-306) as seen by the fan
System_StartOutput(sys, h) ==
    IF sys.state # "SYS_STATE_RUNNING" THEN [h EXCEPT !.fan = "Fan_SetMode"] ELSE h

\* System_Stop (system.c 311-321) as seen by the motors and the fan
System_StopOutput(h) ==
    [h EXCEPT !.motor = [cmd |-> "Motor_Stop", left |-> 0, right |-> 0],
              !.fan = "Fan_Stop"]

InitRun ==
    /\ pid = PID_Init(PID_SPEED_KP, PID_SPEED_KI, PID_SPEED_KD, PID_SPEED_OUT_MAX)
    /\ obs = [op |-> "System_Init", ran |-> FALSE, entered |-> FALSE,
              stale |-> FALSE, ticks |-> 0, run |-> 0]
    /\ InitRest

key_scanCall ==
    \E key_raw \in {0, 1} :
        /\ key' = key_scan(key, key_raw)
        /\ obs' = [obs EXCEPT !.op = "key_scan"]
        /\ UNCHANGED <<pid, g_system, g_element, hw, g_inductor, g_encoder, bt>>

key_stop_carCall ==
    /\ key' = key_stop_car(key)
    /\ obs' = [obs EXCEPT !.op = "key_stop_car"]
    /\ UNCHANGED <<pid, g_system, g_element, hw, g_inductor, g_encoder, bt>>

key_reset_to_idleCall ==
    /\ key' = key_reset_to_idle(key)
    /\ obs' = [obs EXCEPT !.op = "key_reset_to_idle"]
    /\ UNCHANGED <<pid, g_system, g_element, hw, g_inductor, g_encoder, bt>>

System_StartCall ==
    /\ g_system' = System_Start(g_system)
    /\ hw' = System_StartOutput(g_system, hw)
    /\ obs' = [obs EXCEPT !.op = "System_Start"]
    /\ UNCHANGED <<pid, key, g_element, g_inductor, g_encoder, bt>>

System_StopCall ==
    /\ g_system' = System_Stop(g_system)
    /\ hw' = System_StopOutput(hw)
    /\ obs' = [obs EXCEPT !.op = "System_Stop"]
    /\ UNCHANGED <<pid, key, g_element, g_inductor, g_encoder, bt>>

\* a 5 ms tick that returns at the key_car_should_run() gate
System_ControlSkipped ==
    /\ key_car_should_run(key) = 0
    /\ g_system' = System_Control(g_system, key, Sensors(0, 0, 0))
    /\ obs' = [obs EXCEPT !.op = "System_Control", !.ran = FALSE,
                          !.entered = FALSE, !.stale = FALSE]
    /\ UNCHANGED <<pid, key, g_element, hw, g_inductor, g_encoder, bt>>

\* a 5 ms tick that executes the pipeline
System_ControlExecuted ==
    \E s \in RunSensors :
        /\ key_car_should_run(key) = 1
        /\ obs.ticks < MaxControlTicks
        /\ g_system' = System_Control(g_system, key, s)
        /\ hw' = System_ControlOutput(g_system')
        /\ obs' = [obs EXCEPT !.op = "System_Control", !.ran = TRUE,
                              !.entered = ~obs.ran,
                              !.stale = System_HasHistory(g_system),
                              !.ticks = @ + 1]
        /\ UNCHANGED <<pid, key, g_element, g_inductor, g_encoder, bt>>

NextRun ==
    \/ key_scanCall
    \/ key_stop_carCall
    \/ key_reset_to_idleCall
    \/ System_StartCall
    \/ System_StopCall
    \/ System_ControlSkipped
    \/ System_ControlExecuted

SpecRun == InitRun /\ [][NextRun]_vars

(***************************************************************************)
(* C6: the first System_Control tick that executes the pipeline after      *)
(* ticks in which it was skipped finds the left-speed, right-speed and     *)
(* direction controllers reset: it computes from zeroed error history and  *)
(* integral.                                                               *)
(***************************************************************************)
C6_RunEntryFindsControllersReset ==
    (obs.op = "System_Control" /\ obs.ran /\ obs.entered) => ~obs.stale

(***************************************************************************)
(* SpecSys: the start key held down, the recognizer fed by the line        *)
(* sensing and the control task, on the wall.                              *)
(***************************************************************************)
\* centred on the line, and off the line on the wall with stalled wheels
WallReadings == { Reading(0, 50, 50, 1, 0, 0), Reading(0, 5, 5, 0, -30, 0) }

key_scanPressed ==
    /\ key' = key_scan(key, 1)
    /\ obs' = [obs EXCEPT !.op = "key_scan"]
    /\ UNCHANGED <<pid, g_system, g_element, hw, g_inductor, g_encoder, bt>>

Element_UpdateCall ==
    \E in \in WallReadings :
        /\ in.online = 0 => obs.run < MaxOfflineRun
        /\ g_element' = Element_Update(g_element, in)
        /\ obs' = [obs EXCEPT !.op = "Element_Update",
                              !.run = IF in.online = 1 THEN 0 ELSE @ + 1]
        /\ UNCHANGED <<pid, g_system, key, hw, g_inductor, g_encoder, bt>>

NextSys ==
    \/ key_scanPressed
    \/ Element_UpdateCall
    \/ System_ControlSkipped
    \/ System_ControlExecuted

SpecSys == InitRun /\ [][NextSys]_vars

(***************************************************************************)
(* C10: on every control tick in which the recognizer's emergency flag is  *)
(* set, System_Control gives the motors a brake/hold command: it does not  *)
(* call Motor_SetSpeed with the outputs of the speed controllers.          *)
(***************************************************************************)
C10_EmergencyTickBrakes ==
    (obs.op = "System_Control" /\ obs.ran /\ Element_IsEmergency(g_element) = 1)
    => hw.motor.cmd # "Motor_SetSpeed"

(***************************************************************************)
(* SpecElement: the recognizer, from Element_Init, fed one Element_Update  *)
(* per tick with arguments that meet the entry and exit conditions of the  *)
(* four elements, alone and together, always on the line.                  *)
(* obs.running counts the consecutive ticks that began in Running;         *)
(* obs.from and obs.was are the state and the element the tick began with. *)
(***************************************************************************)
ElementInput(error, left, right, gyro_z, enc) ==
    [Reading(error, left, right, 1, 0, enc) EXCEPT !.gyro_z = gyro_z]

ElementInputs ==
    { ElementInput(0, 35, 35, 0, 0),          \* straight
      ElementInput(79, 0, 72, 0, 0),          \* one side empty, the other full
      ElementInput(79, 0, 72, 32000, 0),      \* the same while rotating fast
      ElementInput(0, 60, 41, 0, 0),          \* strong sum leaning left
      ElementInput(0, 100, 81, 0, 60) }       \* both sides full, leaning left

\* ticks that begin in Running are explored up to this many in a row
MaxRunningTicks == 4

InitElement ==
    /\ pid = PID_Init(PID_SPEED_KP, PID_SPEED_KI, PID_SPEED_KD, PID_SPEED_OUT_MAX)
    /\ obs = [op |-> "Element_Init", in |-> Reading(0, 0, 0, 1, 0, 0), run |-> 0,
              running |-> 0, from |-> "ELEM_STATE_IDLE", was |-> "ELEM_NONE"]
    /\ InitRest

Element_UpdateAny ==
    \E in \in ElementInputs :
        /\ g_element.state = "ELEM_STATE_RUNNING" => obs.running < MaxRunningTicks
        /\ g_element' = Element_Update(g_element, in)
        /\ obs' = [op |-> "Element_Update", in |-> in, run |-> 0,
                   running |-> IF g_element.state = "ELEM_STATE_RUNNING"
                               THEN obs.running + 1 ELSE 0,
                   from |-> g_element.state, was |-> g_element.current_element]
        /\ UNCHANGED <<pid, g_system, key, hw, g_inductor, g_encoder, bt>>

NextElement ==
    \/ Element_UpdateAny

SpecElement == InitElement /\ [][NextElement]_vars

(***************************************************************************)
(* C11: in every state reachable from Element_Init by Element_Update       *)
(* calls, state = ELEM_STATE_IDLE if and only if current_element =         *)
(* ELEM_NONE.                                                              *)
(***************************************************************************)
C11_IdleIffNoElement ==
    (g_element.state = "ELEM_STATE_IDLE") <=> (g_element.current_element = "ELEM_NONE")

\* back in Idle with no element, on the tick after the Recover of a crossing
C11_Witness ==
    /\ obs.op = "Element_Update"
    /\ obs.from = "ELEM_STATE_RECOVER"
    /\ obs.was = "ELEM_CROSS"
    /\ g_element.state = "ELEM_STATE_IDLE"
    /\ g_element.current_element = "ELEM_NONE"

(***************************************************************************)
(* C12: the recognizer state changes only along Idle -> Enter -> Running   *)
(* -> Exit -> Recover -> Idle, one step at a time, and a non-emergency     *)
(* tick that begins in Enter, Exit or Recover always takes the next step:  *)
(* after Running decides to exit, Idle is back after exactly two further   *)
(* non-emergency ticks.                                                    *)
(***************************************************************************)
C12_StateCycle ==
    [][ obs'.op = "Element_Update" =>
          /\ g_element'.state # g_element.state =>
               <<g_element.state, g_element'.state>> \in
                   { <<"ELEM_STATE_IDLE", "ELEM_STATE_ENTER">>,
                     <<"ELEM_STATE_ENTER", "ELEM_STATE_RUNNING">>,
                     <<"ELEM_STATE_RUNNING", "ELEM_STATE_EXIT">>,
                     <<"ELEM_STATE_EXIT", "ELEM_STATE_RECOVER">>,
                     <<"ELEM_STATE_RECOVER", "ELEM_STATE_IDLE">> }
          /\ (g_element'.emergency_flag = 0 /\
              g_element.state \in {"ELEM_STATE_ENTER", "ELEM_STATE_EXIT",
                                   "ELEM_STATE_RECOVER"}) =>
               g_element'.state # g_element.state
          /\ g_element'.emergency_flag = 1 => g_element'.state = g_element.state ]_vars

\* the Exit tick of a right-angle turn, taken while the line is lost
C12_Witness ==
    /\ obs.op = "Element_Update"
    /\ obs.in.online = 0
    /\ g_element.emergency_flag = 0
    /\ g_element.state = "ELEM_STATE_RECOVER"
    /\ g_element.current_element = "ELEM_TURN_90"

(***************************************************************************)
(* C13: whenever the recognizer is in Idle, at init and after every        *)
(* Recover tick, roundabout_dir is ROUNDABOUT_NONE, direction_offset is 0, *)
(* speed_scale is 100 and distance_cnt and yaw_integral are 0.             *)
(***************************************************************************)
C13_IdleIsClean ==
    g_element.state = "ELEM_STATE_IDLE" =>
        /\ g_element.roundabout_dir = "ROUNDABOUT_NONE"
        /\ g_element.direction_offset = 0
        /\ g_element.speed_scale = 100
        /\ g_element.distance_cnt = 0
        /\ g_element.yaw_integral = 0

\* Idle on the tick after the Recover of a roundabout
C13_Witness ==
    /\ obs.op = "Element_Update"
    /\ obs.from = "ELEM_STATE_RECOVER"
    /\ obs.was = "ELEM_HEXAGON"
    /\ g_element.state = "ELEM_STATE_IDLE"
    /\ g_element.speed_scale = 100

(***************************************************************************)
(* C14: on a non-emergency tick that begins in Idle, the element entered   *)
(* is the one of the first detector, in the order roundabout, crossing,    *)
(* right-angle turn, zigzag, whose condition is met; the match sets        *)
(* current_element, state = Enter and the element's speed_scale, and the   *)
(* detectors after it are not evaluated (a roundabout match leaves the     *)
(* crossing detector's counter as it was).  With no condition met the      *)
(* recognizer stays in Idle.                                               *)
(***************************************************************************)
C14_Matches(el) == el.current_element # "ELEM_NONE"

C14_SpeedScale(element) ==
    CASE element = "ELEM_HEXAGON" -> 75
      [] element = "ELEM_CROSS" -> 90
      [] element = "ELEM_TURN_90" -> 70
      [] element = "ELEM_ZIGZAG_45" -> 85
      [] OTHER -> 100

C14_DetectorPriority ==
    [][ LET in == obs'.in
            e2 == Element_Precheck(g_element, in)
            hexagon == Element_DetectHexagon(e2, in.error, in.left, in.right, in.sum,
                                             in.gyro_z, in.enc)
            cross   == Element_DetectCross(e2, in.left, in.right, in.sum)
            turn90  == Element_DetectTurn90(e2, in.error, in.left, in.right, in.gyro_z)
            zigzag  == Element_DetectZigzag(e2, in.error, in.left, in.right)
            first   == IF C14_Matches(hexagon) THEN "ELEM_HEXAGON"
                       ELSE IF C14_Matches(cross) THEN "ELEM_CROSS"
                       ELSE IF C14_Matches(turn90) THEN "ELEM_TURN_90"
                       ELSE IF C14_Matches(zigzag) THEN "ELEM_ZIGZAG_45"
                       ELSE "ELEM_NONE"
        IN  (/\ obs'.op = "Element_Update"
             /\ g_element.state = "ELEM_STATE_IDLE"
             /\ g_element'.emergency_flag = 0) =>
                /\ g_element'.current_element = first
                /\ g_element'.speed_scale = C14_SpeedScale(first)
                /\ g_element'.state = IF first = "ELEM_NONE" THEN "ELEM_STATE_IDLE"
                                      ELSE "ELEM_STATE_ENTER"
                /\ first = "ELEM_HEXAGON" => g_element'.cross_cnt = g_element.cross_cnt ]_vars

\* a roundabout entered on the tick on which the crossing detector, one
\* count short of its hold time, would have matched as well
C14_Witness ==
    /\ obs.op = "Element_Update"
    /\ obs.from = "ELEM_STATE_IDLE"
    /\ obs.in.left > CROSS_BOTH_HIGH_THRESHOLD
    /\ obs.in.right > CROSS_BOTH_HIGH_THRESHOLD
    /\ g_element.cross_cnt = CROSS_HOLD_TIME - 1
    /\ g_element.current_element = "ELEM_HEXAGON"
    /\ g_element.state = "ELEM_STATE_ENTER"
    /\ g_element.speed_scale = 75

(***************************************************************************)
(* C15: detectors run only in Idle.  current_element changes from          *)
(* ELEM_NONE to an element only on a tick that began in Idle, back to      *)
(* ELEM_NONE only on the Recover tick, and never from one element to       *)
(* another; a tick that begins in Enter, Running, Exit or Recover starts   *)
(* no element and leaves the detectors' counters alone.                    *)
(***************************************************************************)
C15_DetectorsOnlyInIdle ==
    [][ obs'.op = "Element_Update" =>
          /\ (g_element.current_element = "ELEM_NONE" /\
              g_element'.current_element # "ELEM_NONE") =>
                 g_element.state = "ELEM_STATE_IDLE"
          /\ (g_element.current_element # "ELEM_NONE" /\
              g_element'.current_element = "ELEM_NONE") =>
                 g_element.state = "ELEM_STATE_RECOVER"
          /\ g_element.current_element # "ELEM_NONE" =>
                 g_element'.current_element \in {g_element.current_element, "ELEM_NONE"}
          /\ g_element.state # "ELEM_STATE_IDLE" =>
                 /\ g_element'.state # "ELEM_STATE_ENTER"
                 /\ g_element'.entry_cnt = g_element.entry_cnt
                 /\ g_element'.side_accumulate = g_element.side_accumulate
                 /\ g_element'.cross_cnt = g_element.cross_cnt ]_vars

\* a tick that began in the Running state of a zigzag and saw the right-angle
\* signature: the zigzag goes on
C15_Witness ==
    /\ obs.op = "Element_Update"
    /\ obs.from = "ELEM_STATE_RUNNING"
    /\ obs.was = "ELEM_ZIGZAG_45"
    /\ obs.in.left < TURN90_LOW_THRESHOLD
    /\ obs.in.right > TURN90_HIGH_THRESHOLD
    /\ obs.in.gyro_z = 0
    /\ g_element.current_element = "ELEM_ZIGZAG_45"
    /\ g_element.state = "ELEM_STATE_RUNNING"

(***************************************************************************)
(* SpecInductor: the fusion unit, from Inductor_Init, recalibrated by      *)
(* Inductor_SetCalibration and fed four ADC samples per Inductor_Update.   *)
(***************************************************************************)
\* one filtered ADC sample per channel
AdcFrame(lx, ly, rx, ry) == [ch \in 0..3 |-> <<lx, ly, rx, ry>>[ch + 1]]

\* frames: no signal, weak left only, centred, right only, left-heavy,
\* and a reading beyond the 12-bit range
AdcFrames ==
    { AdcFrame(0, 0, 0, 0),
      AdcFrame(600, 0, 0, 0),
      AdcFrame(2500, 2500, 2500, 2500),
      AdcFrame(0, 0, 2500, 600),
      AdcFrame(2500, 600, 600, 0),
      AdcFrame(65535, 0, 600, 2500) }

\* {min, max} arguments: a valid pair, an empty range, an inverted range
CalibrationSamples == { <<1000, 3000>>, <<2000, 2000>>, <<3000, 1000>> }

InitInductor ==
    /\ pid = PID_Init(PID_SPEED_KP, PID_SPEED_KI, PID_SPEED_KD, PID_SPEED_OUT_MAX)
    /\ obs = [op |-> "Inductor_Init"]
    /\ InitRest

Inductor_UpdateCall ==
    \E adc \in AdcFrames, ub \in NormalizeUB :
        /\ g_inductor' = Inductor_Update(g_inductor, adc, ub)
        /\ obs' = [op |-> "Inductor_Update"]
        /\ UNCHANGED <<pid, g_system, key, g_element, hw, g_encoder, bt>>

Inductor_SetCalibrationCall ==
    \E channel \in 0..4, c \in CalibrationSamples :
        /\ g_inductor' = Inductor_SetCalibration(g_inductor, channel, c[1], c[2])
        /\ obs' = [op |-> "Inductor_SetCalibration"]
        /\ UNCHANGED <<pid, g_system, key, g_element, hw, g_encoder, bt>>

NextInductor ==
    \/ Inductor_UpdateCall
    \/ Inductor_SetCalibrationCall

SpecInductor == InitInductor /\ [][NextInductor]_vars

(***************************************************************************)
(* C16: after Inductor_Update, is_online is 0 exactly when left_magnitude  *)
(* + right_magnitude < INDUCTOR_OFFLINE_THRESHOLD, and whenever it is 0    *)
(* the steering error is 0, whatever the two magnitudes.                   *)
(***************************************************************************)
C16_OfflineIffWeakSum ==
    obs.op = "Inductor_Update" =>
        /\ (Inductor_IsOnline(g_inductor) = 0) <=>
             (g_inductor.left_magnitude + g_inductor.right_magnitude
                  < INDUCTOR_OFFLINE_THRESHOLD)
        /\ Inductor_IsOnline(g_inductor) \in {0, 1}
        /\ Inductor_IsOnline(g_inductor) = 0 => Inductor_GetError(g_inductor) = 0

\* offline with the whole (weak) signal on the left side
C16_Witness ==
    /\ obs.op = "Inductor_Update"
    /\ g_inductor.left_magnitude > 0
    /\ g_inductor.right_magnitude = 0
    /\ Inductor_IsOnline(g_inductor) = 0
    /\ Inductor_GetError(g_inductor) = 0

(***************************************************************************)
(* C19: for every channel the calibration pair satisfies max > min in      *)
(* every reachable state, after any sequence of Inductor_SetCalibration    *)
(* calls with any arguments.                                               *)
(***************************************************************************)
C19_CalibrationMaxAboveMin ==
    \A ch \in 0..3 : g_inductor.calibration_max[ch] > g_inductor.calibration_min[ch]

(***************************************************************************)
(* SpecFusion: the pure steps of the fusion unit, each applied once to an  *)
(* argument list drawn by Init: fast_sqrt over its documented domain,      *)
(* normalize_inductor over raw values around and far from the calibration  *)
(* pair, step 3 of Inductor_Update over every pair of normalized values    *)
(* and its step 4 over every pair of magnitudes.                           *)
(***************************************************************************)
MaxSqrtInput == 65535

MaxMagnitude == 100

\* raw ADC values: around the pairs below and at both ends of 16 bits
RawSamples == {0, 1, 999, 1000, 1001, 1500, 2000, 2999, 3000, 3001, 4095, 65534, 65535}

\* {min, max}: narrowest, default, widest, typical, top of the range, and
\* the two shapes Inductor_SetCalibration also accepts (empty, inverted)
CalibrationPairs ==
    { <<0, 1>>, <<0, 4095>>, <<0, 65535>>, <<1000, 3000>>, <<65534, 65535>>,
      <<2000, 2000>>, <<3000, 1000>> }

FusionCall(fn, a, b, c) == [op |-> "call", fn |-> fn, a |-> a, b |-> b, c |-> c, r |-> 0]

InitFusion ==
    /\ pid = PID_Init(PID_SPEED_KP, PID_SPEED_KI, PID_SPEED_KD, PID_SPEED_OUT_MAX)
    /\ \/ \E v \in 0..MaxSqrtInput : obs = FusionCall("fast_sqrt", v, 0, 0)
       \/ \E raw \in RawSamples, c \in CalibrationPairs :
              obs = FusionCall("normalize_inductor", raw, c[1], c[2])
       \/ \E l \in 0..MaxMagnitude, r \in 0..MaxMagnitude :
              obs = FusionCall("Inductor_Update", l, r, 0)
       \/ \E x \in 0..MaxMagnitude, y \in 0..MaxMagnitude :
              obs = FusionCall("Inductor_Magnitude", x, y, 0)
    /\ InitRest

fast_sqrtCall ==
    /\ obs.op = "call"
    /\ obs.fn = "fast_sqrt"
    /\ obs' = [obs EXCEPT !.op = "return", !.r = fast_sqrt(obs.a)]
    /\ UNCHANGED <<pid, g_system, key, g_element, hw, g_inductor, g_encoder, bt>>

normalize_inductorCall ==
    /\ obs.op = "call"
    /\ obs.fn = "normalize_inductor"
    /\ \E ub \in NormalizeUB :
           obs' = [obs EXCEPT !.op = "return",
                              !.r = normalize_inductor(obs.a, obs.b, obs.c, ub)]
    /\ UNCHANGED <<pid, g_system, key, g_element, hw, g_inductor, g_encoder, bt>>

Inductor_FuseCall ==
    /\ obs.op = "call"
    /\ obs.fn = "Inductor_Update"
    /\ g_inductor' = Inductor_Fuse([g_inductor EXCEPT !.left_magnitude = obs.a,
                                                      !.right_magnitude = obs.b])
    /\ obs' = [obs EXCEPT !.op = "return", !.r = Inductor_GetError(g_inductor')]
    /\ UNCHANGED <<pid, g_system, key, g_element, hw, g_encoder, bt>>

Inductor_MagnitudeCall ==
    /\ obs.op = "call"
    /\ obs.fn = "Inductor_Magnitude"
    /\ obs' = [obs EXCEPT !.op = "return", !.r = Inductor_Magnitude(obs.a, obs.b)]
    /\ UNCHANGED <<pid, g_system, key, g_element, hw, g_inductor, g_encoder, bt>>

NextFusion ==
    \/ fast_sqrtCall
    \/ normalize_inductorCall
    \/ Inductor_FuseCall
    \/ Inductor_MagnitudeCall

SpecFusion == InitFusion /\ [][NextFusion]_vars

(***************************************************************************)
(* C17 (amended): for every pair of magnitudes in 0..100 with left + right *)
(* >= 20 the steering error of Inductor_Update is                          *)
(* -((left - right) * 100) / (left + right + 1) truncated toward zero: it  *)
(* lies in [-100, 100], is never positive when left > right, never         *)
(* negative when right > left, zero when they are equal, and non-zero      *)
(* exactly when |left - right| * 100 >= left + right + 1.                  *)
(***************************************************************************)
C17_Fused == obs.op = "return" /\ obs.fn = "Inductor_Update"

C18_Normalized == obs.op = "return" /\ obs.fn = "normalize_inductor" /\ obs.c > obs.b

C18_NormalizeInRange ==
    C18_Normalized =>
        /\ obs.r \in 0..100
        /\ obs.a <= obs.b => obs.r = 0
        /\ obs.a >= obs.c => obs.r = 100
        /\ (obs.b < obs.a /\ obs.a < obs.c) =>
               obs.r = ((obs.a - obs.b) * 100) \div (obs.c - obs.b)

\* a raw value far above max, where the unclamped quotient would not fit
C18_Witness ==
    /\ C18_Normalized
    /\ obs.a = 65535
    /\ obs.b = 1000
    /\ obs.c = 3000
    /\ obs.r = 100

(***************************************************************************)
(* C20: for every v in 0..65535 the result r of fast_sqrt(v) is within 1   *)
(* of the real square root: (r-1)^2 <= v <= (r+1)^2, and r = 0 only for    *)
(* v = 0.                                                                  *)
(***************************************************************************)
C20_Rooted == obs.op = "return" /\ obs.fn = "fast_sqrt"

C20_SqrtWithinOne ==
    C20_Rooted =>
        /\ obs.r = 0 <=> obs.a = 0
        /\ obs.r > 0 => /\ (obs.r - 1) * (obs.r - 1) <= obs.a
                        /\ obs.a <= (obs.r + 1) * (obs.r + 1)

\* an input whose result is one above the floor of the root
C20_Witness ==
    /\ C20_Rooted
    /\ obs.a > 1
    /\ obs.r * obs.r > obs.a

(***************************************************************************)
(* C21: for all normalized values x, y in 0..100 the magnitude computed by *)
(* Inductor_Update equals min(100, floor(sqrt(x*x + y*y))); in particular  *)
(* it is always in 0..100.                                                 *)
(***************************************************************************)
C21_FloorSqrt(x, y) ==
    CHOOSE r \in 0..(x + y) : r * r <= x * x + y * y /\ x * x + y * y < (r + 1) * (r + 1)

C21_Measured == obs.op = "return" /\ obs.fn = "Inductor_Magnitude"

C21_MagnitudeIsClampedFloorSqrt ==
    C21_Measured =>
        LET root == C21_FloorSqrt(obs.a, obs.b)
        IN  obs.r = IF root > 100 THEN 100 ELSE root

(***************************************************************************)
(* SpecTrack: the recognizer, from Element_Init, driven over short tracks  *)
(* made of the right-angle-turn signature, the two halves of a zigzag      *)
(* swing and the straight.  obs.ticks counts the Element_Update calls,     *)
(* obs.turn and obs.zig the length of the initial run of ticks that        *)
(* carried the turn signature, respectively followed the zigzag pattern.   *)
(***************************************************************************)
\* left 10, right 90: error -(10 - 90) * 100 / 101 = 79, sum 100
TurnSignature == ElementInput(79, 10, 90, 0, 0)

\* the k-th tick of a swing between +50 and -50 that turns every 2 ticks:
\* left 25, right 76 give error 50 and the mirrored pair -50, sum 101
ZigzagPattern(k) ==
    IF ((k - 1) \div 2) % 2 = 0
    THEN ElementInput(50, 25, 76, 0, 0)
    ELSE ElementInput(-50, 76, 25, 0, 0)

TrackInputs ==
    { TurnSignature, ZigzagPattern(1), ZigzagPattern(3), ElementInput(0, 50, 50, 0, 0) }

\* tracks are explored up to this many ticks
MaxTrackTicks == 8

InitTrack ==
    /\ pid = PID_Init(PID_SPEED_KP, PID_SPEED_KI, PID_SPEED_KD, PID_SPEED_OUT_MAX)
    /\ obs = [op |-> "Element_Init", in |-> Reading(0, 0, 0, 1, 0, 0),
              ticks |-> 0, turn |-> 0, zig |-> 0]
    /\ InitRest

Element_UpdateTrack ==
    \E in \in TrackInputs :
        /\ obs.ticks < MaxTrackTicks
        /\ g_element' = Element_Update(g_element, in)
        /\ obs' = [op |-> "Element_Update", in |-> in, ticks |-> obs.ticks + 1,
                   turn |-> IF obs.turn = obs.ticks /\ in = TurnSignature
                            THEN obs.turn + 1 ELSE obs.turn,
                   zig |-> IF obs.zig = obs.ticks /\ in = ZigzagPattern(obs.ticks + 1)
                           THEN obs.zig + 1 ELSE obs.zig]
        /\ UNCHANGED <<pid, g_system, key, hw, g_inductor, g_encoder, bt>>

NextTrack ==
    \/ Element_UpdateTrack

SpecTrack == InitTrack /\ [][NextTrack]_vars

(***************************************************************************)
(* C22: from the initialised recognizer, 6 consecutive online ticks with   *)
(* the right-angle-turn signature (left 10, right 90, yaw rate 0) leave    *)
(* current_element = Turn90, speed_scale = 70 and a non-zero               *)
(* steering_offset.                                                        *)
(***************************************************************************)
C22_SixTurnTicks == obs.ticks = 6 /\ obs.turn = 6

C22_TurnSignatureEntersTurn90 ==
    C22_SixTurnTicks =>
        /\ g_element.current_element = "ELEM_TURN_90"
        /\ g_element.speed_scale = 70
        /\ g_element.direction_offset # 0
        /\ g_element.direction_offset = TURN90_STEP_OUTPUT

C22_Witness ==
    /\ C22_SixTurnTicks
    /\ g_element.state = "ELEM_STATE_RUNNING"
    /\ g_element.current_element = "ELEM_TURN_90"
    /\ g_element.direction_offset > 0

(***************************************************************************)
(* C23: fed, from Idle, a sustained zigzag pattern (error alternating      *)
(* between +50 and -50 every 2 ticks, combined magnitude above 40), the    *)
(* recognizer moves Idle -> Enter -> Running within the detection window   *)
(* and remains in the zigzag element for as long as the pattern is         *)
(* sustained; it leaves only once the error jump has damped below 20.      *)
(***************************************************************************)
C23_PatternSustained == obs.ticks >= 1 /\ obs.zig = obs.ticks

C23_ZigzagHeldWhileSustained ==
    C23_PatternSustained =>
        /\ g_element.current_element = "ELEM_ZIGZAG_45"
        /\ g_element.state \in {"ELEM_STATE_ENTER", "ELEM_STATE_RUNNING"}
        /\ obs.ticks >= ZIGZAG_JUMP_TIME_WINDOW => g_element.state = "ELEM_STATE_RUNNING"

(***************************************************************************)
(* C28: the start key starts and stops the car: a debounced press while    *)
(* the car is running stops it, so key_car_should_run() returns 0 after a  *)
(* press made in the RUNNING state.                                        *)
(***************************************************************************)
C28_PressWhileRunningStops ==
    [][(/\ key.g_car_state = "CAR_STATE_RUNNING"
        /\ key.g_start_key_pressed = 0
        /\ key'.g_start_key_pressed = 1)
       => key_car_should_run(key') = 0]_vars

(***************************************************************************)
(* C29: in Running, for every element type, each non-emergency tick adds   *)
(* exactly encoder_delta once to distance_cnt and exactly gyro_z / 16      *)
(* (truncating) once to yaw_integral.                                      *)
(***************************************************************************)
C29_RunningTickAccumulatesOnce ==
    [][(/\ g_element.state = "ELEM_STATE_RUNNING"
        /\ obs'.op = "Element_Update"
        /\ g_element'.emergency_flag = 0)
       => /\ g_element'.distance_cnt = g_element.distance_cnt + obs'.in.enc
          /\ g_element'.yaw_integral =
                 g_element.yaw_integral + TDiv(obs'.in.gyro_z, 16)]_vars

(***************************************************************************)
(* C30: crossing: on every Running tick steering_offset is 0, and the      *)
(* element moves to Exit exactly on the first tick at which the encoder    *)
(* deltas accumulated since entry exceed 100.  On a tick that begins with  *)
(* nothing accumulated the sum since entry is this tick's delta.           *)
(***************************************************************************)
C30_CrossExitsOnDistance ==
    [][(/\ g_element.state = "ELEM_STATE_RUNNING"
        /\ g_element.current_element = "ELEM_CROSS"
        /\ g_element.distance_cnt = 0
        /\ obs'.op = "Element_Update")
       => /\ g_element'.direction_offset = 0
          /\ g_element'.state = "ELEM_STATE_EXIT" <=> obs'.in.enc > 100]_vars

(***************************************************************************)
(* SpecDrive: the car driven: the start key held down until the key module *)
(* runs, start, stop and speed commands from the command link, the         *)
(* recognizer fed the right-angle-turn signature, and control ticks that   *)
(* see either the cruise reading or a disturbance.                         *)
(* obs.s is the reading of the last executed tick, obs.steady the number   *)
(* of executed ticks in a row, since the last command, that saw the cruise *)
(* reading with target speed 50; after a command obs.op is the command.    *)
(***************************************************************************)
\* both wheels at the base target speed 50, on the centre line
CruiseSensors == Sensors(50, 50, 0)

DriveSensors == { CruiseSensors, Sensors(0, 0, 10) }

DriveCommands == { <<"BT_CMD_START", 0>>, <<"BT_CMD_STOP", 0>>, <<"BT_CMD_SPEED", 50>>,
                   <<"BT_CMD_FAN", 50>>, <<"BT_CMD_DEBUG", 0>> }

\* executed control ticks are explored up to this number
MaxDriveTicks == 5

\* System_CmdCallback (system.c 544-578) as seen by the motors and the fan
System_CmdCallbackOutput(sys, h, cmd) ==
    CASE cmd = "BT_CMD_START" -> System_StartOutput(sys, h)
      [] cmd = "BT_CMD_STOP" -> System_StopOutput(h)
      [] cmd = "BT_CMD_FAN" -> [h EXCEPT !.fan = "Fan_SetDuty"]
      [] OTHER -> h

InitDrive ==
    /\ pid = PID_Init(PID_SPEED_KP, PID_SPEED_KI, PID_SPEED_KD, PID_SPEED_OUT_MAX)
    /\ obs = [op |-> "System_Init", ran |-> FALSE, entered |-> FALSE,
              stale |-> FALSE, ticks |-> 0, run |-> 0,
              s |-> Sensors(0, 0, 0), steady |-> 0]
    /\ InitRest

System_CmdCallbackCall ==
    \E c \in DriveCommands :
        /\ g_system' = System_CmdCallback(g_system, c[1], c[2])
        /\ hw' = System_CmdCallbackOutput(g_system, hw, c[1])
        /\ obs' = [obs EXCEPT !.op = c[1], !.steady = 0]
        /\ UNCHANGED <<pid, key, g_element, g_inductor, g_encoder, bt>>

Element_UpdateTurn ==
    /\ g_element' = Element_Update(g_element, TurnSignature)
    /\ obs' = [obs EXCEPT !.op = "Element_Update"]
    /\ UNCHANGED <<pid, g_system, key, hw, g_inductor, g_encoder, bt>>

System_ControlTick ==
    \E s \in DriveSensors :
        /\ key_car_should_run(key) = 1
        /\ obs.ticks < MaxDriveTicks
        /\ g_system' = System_Control(g_system, key, s)
        /\ hw' = System_ControlOutput(g_system')
        /\ obs' = [obs EXCEPT !.op = "System_Control", !.ran = TRUE,
                              !.ticks = @ + 1, !.s = s,
                              !.steady = IF s = CruiseSensors /\ g_system.target_speed = 50
                                         THEN @ + 1 ELSE 0]
        /\ UNCHANGED <<pid, key, g_element, g_inductor, g_encoder, bt>>

NextDrive ==
    \/ key_scanPressed
    \/ System_CmdCallbackCall
    \/ Element_UpdateTurn
    \/ System_ControlSkipped
    \/ System_ControlTick

SpecDrive == InitDrive /\ [][NextDrive]_vars

(***************************************************************************)
(* C24: with base target speed 50, steering error 0 and both wheel         *)
(* feedbacks exactly 50 on every tick, both wheel speed-PID outputs reach  *)
(* a constant value within a bounded number of ticks (C24_SettleTicks,     *)
(* whatever the controllers held before), never change afterwards, and     *)
(* stay within output_max on every tick.                                   *)
(***************************************************************************)
C24_SettleTicks == 2

C24_CruiseSettles ==
    /\ [](/\ Abs(g_system.pid_speed_left.output) <= g_system.pid_speed_left.output_max
          /\ Abs(g_system.pid_speed_right.output) <= g_system.pid_speed_right.output_max)
    /\ [][(/\ obs.steady >= C24_SettleTicks
           /\ obs'.steady = obs.steady + 1)
          => /\ g_system'.pid_speed_left.output = g_system.pid_speed_left.output
             /\ g_system'.pid_speed_right.output = g_system.pid_speed_right.output
             /\ g_system'.motor_left_pwm = g_system.motor_left_pwm
             /\ g_system'.motor_right_pwm = g_system.motor_right_pwm]_vars

\* settled, after a disturbance, on outputs that are not those of a reset
C24_Witness ==
    /\ obs.op = "System_Control"
    /\ obs.steady >= C24_SettleTicks + 2
    /\ g_system.pid_speed_left.output # 0
    /\ g_system.pid_speed_right.output # 0

(***************************************************************************)
(* C25: on every control tick the recognizer's steering_offset is added    *)
(* into the already-split left/right wheel speed targets before the wheel  *)
(* speed PIDs run, so a non-zero offset changes the targets passed to      *)
(* PID_Incremental: they are not the plain split target_speed +/-          *)
(* direction_output.                                                       *)
(***************************************************************************)
C25_OffsetBiasesTargets ==
    (obs.op = "System_Control" /\ obs.ran /\ g_element.direction_offset # 0) =>
        LET direction_output == Wrap16(g_system.pid_direction.output)
            left_target  == g_system.pid_speed_left.error_now + obs.s.left_speed
            right_target == g_system.pid_speed_right.error_now + obs.s.right_speed
        IN  \/ left_target # LIMIT_RANGE(g_system.target_speed + direction_output,
                                         -MOTOR_SPEED_MAX, MOTOR_SPEED_MAX)
            \/ right_target # LIMIT_RANGE(g_system.target_speed - direction_output,
                                          -MOTOR_SPEED_MAX, MOTOR_SPEED_MAX)

(***************************************************************************)
(* C27: each start command and each stop command handled by                *)
(* System_CmdCallback resets all three PID controllers and returns the     *)
(* element recognizer to Idle with current_element None, from any prior    *)
(* recognizer state.                                                       *)
(***************************************************************************)
C27_StartStopResets ==
    [][obs'.op \in {"BT_CMD_START", "BT_CMD_STOP"}
       => /\ g_system'.pid_speed_left = PID_Reset(g_system.pid_speed_left)
          /\ g_system'.pid_speed_right = PID_Reset(g_system.pid_speed_right)
          /\ g_system'.pid_direction = PID_Reset(g_system.pid_direction)
          /\ g_element'.state = "ELEM_STATE_IDLE"
          /\ g_element'.current_element = "ELEM_NONE"]_vars

(***************************************************************************)
(* System_TaskLoop (system.c 443-490) on st = [sys, ind, enc, h]: g_system *)
(* with the two loop counters, g_inductor, g_encoder and the commands to   *)
(* motor and fan.  c is the command frame Bluetooth_Process dispatches to  *)
(* System_CmdCallback (<<"none", 0>> when no frame is complete), battery   *)
(* the status Battery_Check finds, s, adc and ub what the sensors deliver. *)
(***************************************************************************)
System_TaskLoop(st, c, battery, s, adc, ub) ==
    LET s1 == [st EXCEPT !.sys = System_CmdCallback(st.sys, c[1], c[2]),
                         !.h = System_CmdCallbackOutput(st.sys, st.h, c[1])]
        check == s1.sys.s_battery_check_cnt + 1 >= 20
        s2 == IF check /\ battery = "BATTERY_CRITICAL"
              THEN [s1 EXCEPT !.sys = [System_Stop(s1.sys) EXCEPT
                                           !.state = "SYS_STATE_ERROR",
                                           !.s_battery_check_cnt = 0],
                              !.h = System_StopOutput(s1.h)]
              ELSE [s1 EXCEPT !.sys.s_battery_check_cnt =
                                  IF check THEN 0 ELSE s1.sys.s_battery_check_cnt + 1]
    IN  IF s2.sys.debug_update_cnt + 1 >= 10
        THEN [s2 EXCEPT !.sys = [System_ReadAttitude(s2.sys, s) EXCEPT
                                     !.debug_update_cnt = 0],
                        !.enc = Encoder_Update(s.left_speed, s.right_speed),
                        !.ind = Inductor_Update(s2.ind, adc, ub)]
        ELSE [s2 EXCEPT !.sys.debug_update_cnt = s2.sys.debug_update_cnt + 1]

(***************************************************************************)
(* SpecLoop: the cooperative main loop, System_TaskLoop with the commands  *)
(* it dispatches, interleaved with the periodic control tick of the        *)
(* standing car (the tick returns at the key gate).                        *)
(***************************************************************************)
\* level on the floor at rest, and pitched on the wall while rolling
LoopSensors == { Sensors(0, 0, 0), [Sensors(50, 50, 0) EXCEPT !.acc_x = 50] }

LoopFrames == { AdcFrame(0, 0, 0, 0), AdcFrame(2500, 2500, 2500, 2500) }

LoopCommands == { <<"none", 0>>, <<"BT_CMD_START", 0>>, <<"BT_CMD_STOP", 0>>,
                  <<"BT_CMD_SPEED", 50>> }

System_TaskLoopCall ==
    \E c \in LoopCommands, battery \in {"BATTERY_OK", "BATTERY_CRITICAL"},
       s \in LoopSensors, adc \in LoopFrames, ub \in NormalizeUB :
        LET st == System_TaskLoop([sys |-> g_system, ind |-> g_inductor,
                                   enc |-> g_encoder, h |-> hw],
                                  c, battery, s, adc, ub)
        IN  /\ g_system' = st.sys
            /\ g_inductor' = st.ind
            /\ g_encoder' = st.enc
            /\ hw' = st.h
            /\ obs' = [obs EXCEPT !.op = "System_TaskLoop"]
            /\ UNCHANGED <<pid, key, g_element, bt>>

NextLoop ==
    \/ System_TaskLoopCall
    \/ System_ControlSkipped

SpecLoop == InitDrive /\ [][NextLoop]_vars

(***************************************************************************)
(* C26: the periodic tick is the sole writer of control state:             *)
(* System_TaskLoop and the callbacks it dispatches never write the fused   *)
(* reading, the encoder snapshot, the pitch/yaw values or the PID          *)
(* error/integral/output state.                                            *)
(***************************************************************************)
C26_ControlState(sys) ==
    <<sys.pitch_angle, sys.yaw_rate,
      [n \in {"pid_speed_left", "pid_speed_right", "pid_direction"} |->
          <<sys[n].error_now, sys[n].error_last, sys[n].error_prev,
            sys[n].integral, sys[n].output>>]>>

C26_LoopNeverWritesControlState ==
    [][obs'.op = "System_TaskLoop"
       => /\ g_inductor' = g_inductor
          /\ g_encoder' = g_encoder
          /\ C26_ControlState(g_system') = C26_ControlState(g_system)]_vars

(***************************************************************************)
(* SpecRoundabout: the recognizer, from Element_Init, driven through       *)
(* roundabouts of both directions: entries leaning to either side, then    *)
(* ticks that turn fast in either sense with the straight reacquired, off  *)
(* centre, or with a weak combined signal.  obs as in SpecElement.         *)
(***************************************************************************)
RoundaboutInputs ==
    { ElementInput(0, 60, 41, 0, 0),          \* strong sum leaning left
      ElementInput(0, 41, 60, 0, 0),          \* strong sum leaning right
      ElementInput(0, 35, 35, 32000, 0),      \* straight signature, turning
      ElementInput(0, 35, 35, -32000, 0),     \* the same in the other sense
      ElementInput(33, 20, 40, 32000, 0),     \* turning, off centre
      ElementInput(0, 20, 20, 32000, 0) }     \* turning, combined signal 40

Element_UpdateLap ==
    \E in \in RoundaboutInputs :
        /\ g_element.state = "ELEM_STATE_RUNNING" => obs.running < MaxRunningTicks
        /\ g_element' = Element_Update(g_element, in)
        /\ obs' = [op |-> "Element_Update", in |-> in, run |-> 0,
                   running |-> IF g_element.state = "ELEM_STATE_RUNNING"
                               THEN obs.running + 1 ELSE 0,
                   from |-> g_element.state, was |-> g_element.current_element]
        /\ UNCHANGED <<pid, g_system, key, hw, g_inductor, g_encoder, bt>>

NextRoundabout ==
    \/ Element_UpdateLap

SpecRoundabout == InitElement /\ [][NextRoundabout]_vars

(***************************************************************************)
(* C31: roundabout: every non-emergency tick that begins in Running leaves *)
(* steering_offset = -800 when roundabout_dir is LEFT and +800 when it is  *)
(* RIGHT (it is one of the two), and moves the element to Exit if and only *)
(* if |yaw_integral| > HEXAGON_YAW_COMPLETE_ANGLE * 16 = 4800,             *)
(* |steering_error| < 30 and sum > 40 all hold on that tick; otherwise the *)
(* element stays in Running.                                               *)
(***************************************************************************)
C31_RoundaboutBiasAndExit ==
    [][(/\ obs'.op = "Element_Update"
        /\ g_element.state = "ELEM_STATE_RUNNING"
        /\ g_element.current_element = "ELEM_HEXAGON"
        /\ g_element'.emergency_flag = 0)
       => /\ g_element.roundabout_dir \in {"ROUNDABOUT_LEFT", "ROUNDABOUT_RIGHT"}
          /\ g_element'.roundabout_dir = g_element.roundabout_dir
          /\ g_element.roundabout_dir = "ROUNDABOUT_LEFT" =>
                 g_element'.direction_offset = -800
          /\ g_element.roundabout_dir = "ROUNDABOUT_RIGHT" =>
                 g_element'.direction_offset = 800
          /\ g_element'.state =
                 IF /\ Abs(g_element'.yaw_integral) > 4800
                    /\ Abs(obs'.in.error) < 30
                    /\ obs'.in.sum > 40
                 THEN "ELEM_STATE_EXIT" ELSE "ELEM_STATE_RUNNING"]_vars

\* a left roundabout that leaves on the tick at which the yaw integral, turned
\* in the negative sense, has passed the threshold and the straight is back
C31_Witness ==
    /\ obs.op = "Element_Update"
    /\ obs.from = "ELEM_STATE_RUNNING"
    /\ g_element.current_element = "ELEM_HEXAGON"
    /\ g_element.roundabout_dir = "ROUNDABOUT_LEFT"
    /\ g_element.direction_offset = -800
    /\ g_element.yaw_integral < -4800
    /\ g_element.state = "ELEM_STATE_EXIT"

(***************************************************************************)
(* SpecCorner: the recognizer, from Element_Init, driven through           *)
(* right-angle turns to either side and out of them, with readings at the  *)
(* edges of the exit test (error 29 and 30, magnitude 30 and 31).          *)
(* obs as in SpecTrack; obs.ticks counts the Element_Update calls.         *)
(***************************************************************************)
CornerInputs ==
    { ElementInput(79, 10, 90, 0, 0),         \* left empty, right full
      ElementInput(-79, 90, 10, 0, 0),        \* right empty, left full
      ElementInput(0, 31, 31, 0, 0),          \* centred, both sides just back
      ElementInput(0, 30, 31, 0, 0),          \* centred, left side not yet back
      ElementInput(-29, 60, 41, 0, 0),        \* both back, error just inside
      ElementInput(30, 41, 60, 0, 0) }        \* both back, error just outside

\* corners are explored up to this many ticks
MaxCornerTicks == 6

Element_UpdateCorner ==
    \E in \in CornerInputs :
        /\ obs.ticks < MaxCornerTicks
        /\ g_element' = Element_Update(g_element, in)
        /\ obs' = [obs EXCEPT !.op = "Element_Update", !.in = in, !.ticks = @ + 1]
        /\ UNCHANGED <<pid, g_system, key, hw, g_inductor, g_encoder, bt>>

NextCorner ==
    \/ Element_UpdateCorner

SpecCorner == InitTrack /\ [][NextCorner]_vars

(***************************************************************************)
(* C32: right-angle turn: every non-emergency tick that begins in Running  *)
(* leaves steering_offset with magnitude TURN90_STEP_OUTPUT (2000), -2000  *)
(* when left_magnitude > right_magnitude and +2000 when right_magnitude >  *)
(* left_magnitude, and moves the element to Exit exactly when              *)
(* |steering_error| < 30 and both magnitudes exceed 30; otherwise the      *)
(* element stays in Running.                                               *)
(***************************************************************************)
C32_TurnStepAndExit ==
    [][(/\ obs'.op = "Element_Update"
        /\ g_element.state = "ELEM_STATE_RUNNING"
        /\ g_element.current_element = "ELEM_TURN_90"
        /\ g_element'.emergency_flag = 0)
       => /\ Abs(g_element'.direction_offset) = 2000
          /\ obs'.in.left > obs'.in.right => g_element'.direction_offset = -2000
          /\ obs'.in.right > obs'.in.left => g_element'.direction_offset = 2000
          /\ g_element'.state =
                 IF /\ Abs(obs'.in.error) < 30
                    /\ obs'.in.left > 30
                    /\ obs'.in.right > 30
                 THEN "ELEM_STATE_EXIT" ELSE "ELEM_STATE_RUNNING"]_vars

\* a turn that leaves on a tick with the left side the stronger one: the
\* step is to the left while the state moves to Exit
C32_Witness ==
    /\ obs.op = "Element_Update"
    /\ g_element.current_element = "ELEM_TURN_90"
    /\ g_element.state = "ELEM_STATE_EXIT"
    /\ obs.in.left > obs.in.right
    /\ obs.in.error = -29
    /\ g_element.direction_offset = -TURN90_STEP_OUTPUT

(***************************************************************************)
(* C33: a zigzag is entered from Idle only on a jump between two reported  *)
(* steering errors, the one of this tick and the one of the tick           *)
(* ZIGZAG_JUMP_TIME_WINDOW (3) ticks earlier: it is never entered while    *)
(* the history slot compared against has not yet been filled with a        *)
(* reported sample, that is on none of the first 3 ticks after             *)
(* Element_Init.                                                           *)
(***************************************************************************)
C33_ZigzagNeedsReportedHistory ==
    (/\ obs.op = "Element_Update"
     /\ g_element.current_element = "ELEM_ZIGZAG_45"
     /\ g_element.state = "ELEM_STATE_ENTER")
    => obs.ticks > ZIGZAG_JUMP_TIME_WINDOW

(***************************************************************************)
(* C34: a crossing is entered only when both magnitudes were above         *)
(* CROSS_BOTH_HIGH_THRESHOLD (80) on each of the CROSS_HOLD_TIME (4) most  *)
(* recent consecutive ticks ending with the detecting tick, after any      *)
(* history.  In particular both magnitudes were above the threshold on the *)
(* detecting tick and on the tick before it.                               *)
(***************************************************************************)
C34_CrossNeedsRecentHold ==
    [][(/\ obs'.op = "Element_Update"
        /\ g_element.current_element = "ELEM_NONE"
        /\ g_element'.current_element = "ELEM_CROSS")
       => /\ obs'.in.left > CROSS_BOTH_HIGH_THRESHOLD
          /\ obs'.in.right > CROSS_BOTH_HIGH_THRESHOLD
          /\ obs.op = "Element_Update"
          /\ obs.in.left > CROSS_BOTH_HIGH_THRESHOLD
          /\ obs.in.right > CROSS_BOTH_HIGH_THRESHOLD]_vars

(***************************************************************************)
(* C35: a roundabout is entered only when the combined magnitude was above *)
(* the entry threshold on each of more than 5 most recent consecutive      *)
(* ticks, the direction following the sign of the left-minus-right         *)
(* difference accumulated over those ticks.  In particular the combined    *)
(* magnitude was above the threshold (HEXAGON_ENTRY_SUM_THRESHOLD / 2 in   *)
(* the code) on the detecting tick and on the tick before it.              *)
(***************************************************************************)
C35_RoundaboutNeedsRecentHold ==
    [][(/\ obs'.op = "Element_Update"
        /\ g_element.current_element = "ELEM_NONE"
        /\ g_element'.current_element = "ELEM_HEXAGON")
       => /\ obs'.in.sum > HEXAGON_ENTRY_SUM_THRESHOLD \div 2
          /\ obs.op = "Element_Update"
          /\ obs.in.sum > HEXAGON_ENTRY_SUM_THRESHOLD \div 2]_vars

(***************************************************************************)
(* SpecHistory: the recognizer of SpecOffline, with the steering errors of *)
(* the most recent ticks logged beside it: obs.hist is the sequence of the *)
(* errors passed to the last 8 Element_Update calls, oldest first.         *)
(***************************************************************************)
InitHistory ==
    /\ pid = PID_Init(PID_SPEED_KP, PID_SPEED_KI, PID_SPEED_KD, PID_SPEED_OUT_MAX)
    /\ obs = [op |-> "Element_Init", in |-> Reading(0, 0, 0, 1, 0, 0), run |-> 0,
              was_emergency |-> 0, hist |-> << >>]
    /\ InitRest

Element_UpdateLogged ==
    \E in \in OnlineReadings \cup OfflineReadings :
        /\ in.online = 0 => obs.run < MaxOfflineRun
        /\ g_element.distance_cnt + in.enc <= MaxOdometer
        /\ g_element' = Element_Update(g_element, in)
        /\ obs' = [op |-> "Element_Update", in |-> in,
                   run |-> IF in.online = 0 THEN obs.run + 1 ELSE 0,
                   was_emergency |-> g_element.emergency_flag,
                   hist |-> IF Len(obs.hist) < 8 THEN Append(obs.hist, in.error)
                            ELSE Append(Tail(obs.hist), in.error)]
        /\ UNCHANGED <<pid, g_system, key, hw, g_inductor, g_encoder, bt>>

NextHistory ==
    \/ Element_UpdateLogged

SpecHistory == InitHistory /\ [][NextHistory]_vars

(***************************************************************************)
(* C36: after every Element_Update the write index of the error history is *)
(* in 0..7 and the slot just before it holds the error of that tick; once  *)
(* 8 ticks have run, the ring buffer holds exactly the steering errors of  *)
(* the 8 most recent ticks, emergency ticks included, the slot at the      *)
(* index being the oldest.                                                 *)
(***************************************************************************)
C36_HistoryHoldsLastEight ==
    /\ g_element.index \in 0..7
    /\ obs.op = "Element_Update" =>
           g_element.error[(g_element.index + 7) % 8] = obs.in.error
    /\ Len(obs.hist) = 8 =>
           \A k \in 1..8 : g_element.error[(g_element.index + k - 1) % 8] = obs.hist[k]

\* the buffer after an emergency was cleared by a tick at the turn signature:
\* the wrapped buffer holds that tick's error after those of the emergency ticks
C36_Witness ==
    /\ obs.op = "Element_Update"
    /\ obs.was_emergency = 1
    /\ Len(obs.hist) = 8
    /\ obs.hist[8] = 79
    /\ obs.hist[7] = 0
    /\ g_element.index # 0
    /\ g_element.error[(g_element.index + 7) % 8] = 79

(***************************************************************************)
(* C37: in every reachable recognizer state speed_scale is the value       *)
(* assigned to the current element: 100 for ELEM_NONE, 85 for the zigzag,  *)
(* 70 for the right-angle turn, 75 for the roundabout and 90 for the       *)
(* crossing; it therefore lies in 0..100.                                  *)
(***************************************************************************)
C37_SpeedScaleOfElement ==
    /\ g_element.speed_scale =
           CASE g_element.current_element = "ELEM_NONE" -> 100
             [] g_element.current_element = "ELEM_ZIGZAG_45" -> 85
             [] g_element.current_element = "ELEM_TURN_90" -> 70
             [] g_element.current_element = "ELEM_HEXAGON" -> 75
             [] g_element.current_element = "ELEM_CROSS" -> 90
    /\ g_element.speed_scale \in 0..100

\* a zigzag on its way out, still at its own scale
C37_Witness ==
    /\ obs.op = "Element_Update"
    /\ obs.from = "ELEM_STATE_EXIT"
    /\ g_element.state = "ELEM_STATE_RECOVER"
    /\ g_element.current_element = "ELEM_ZIGZAG_45"
    /\ g_element.speed_scale = 85

(***************************************************************************)
(* C38: after System_Stop (a stop command or the battery-critical          *)
(* shutdown) no control tick commands the motors until System_Start is     *)
(* called: while g_system.state is STOPPED or ERROR, a System_Control tick *)
(* never calls Motor_SetSpeed.                                             *)
(***************************************************************************)
C38_StoppedTickLeavesMotorsAlone ==
    (/\ obs.op = "System_Control"
     /\ g_system.state \in {"SYS_STATE_STOPPED", "SYS_STATE_ERROR"})
    => hw.motor.cmd # "Motor_SetSpeed"

(***************************************************************************)
(* SpecCountdown: the key module alone, from key_init: key_scan every      *)
(* 10 ms with the start key pressed or released, and key_reset_to_idle to  *)
(* re-arm the key.  obs.scans counts the key_scan calls of the current     *)
(* countdown, the one that accepted the press included; obs.repressed      *)
(* tells that a press was debounced during the countdown.                  *)
(***************************************************************************)
InitCountdown ==
    /\ pid = PID_Init(PID_SPEED_KP, PID_SPEED_KI, PID_SPEED_KD, PID_SPEED_OUT_MAX)
    /\ obs = [op |-> "key_init", scans |-> 0, repressed |-> FALSE]
    /\ InitRest

key_scanCounted ==
    \E key_raw \in {0, 1} :
        /\ key' = key_scan(key, key_raw)
        /\ obs' = [op |-> "key_scan",
                   scans |-> IF key.g_car_state = "CAR_STATE_IDLE" /\
                                key'.g_car_state # "CAR_STATE_IDLE"
                             THEN 1
                             ELSE IF key.g_car_state = "CAR_STATE_COUNTDOWN"
                             THEN obs.scans + 1 ELSE obs.scans,
                   repressed |-> IF key.g_car_state = "CAR_STATE_IDLE" THEN FALSE
                                 ELSE IF key.g_car_state = "CAR_STATE_COUNTDOWN" /\
                                         key.g_start_key_pressed = 0 /\
                                         key'.g_start_key_pressed = 1
                                 THEN TRUE ELSE obs.repressed]
        /\ UNCHANGED <<pid, g_system, g_element, hw, g_inductor, g_encoder, bt>>

NextCountdown ==
    \/ key_scanCounted
    \/ key_reset_to_idleCall

SpecCountdown == InitCountdown /\ [][NextCountdown]_vars

(***************************************************************************)
(* C39 (as the code has it): after a debounced start-key press in IDLE,    *)
(* key_car_should_run() is 0 during the whole countdown and becomes 1 on   *)
(* the (START_COUNTDOWN_MS / 10)-th key_scan counted from, and including,  *)
(* the scan that accepted the press.  The 16-bit counter goes down by 10   *)
(* on each of these scans, whatever the key does, and reaches 0 without    *)
(* wrapping, so the countdown ends and presses during it neither restart   *)
(* nor shorten it.                                                         *)
(***************************************************************************)
C39_CountdownScans ==
    LET n == START_COUNTDOWN_MS \div KEY_SCAN_PERIOD_MS
    IN  /\ key.g_car_state = "CAR_STATE_COUNTDOWN" =>
               /\ key_car_should_run(key) = 0
               /\ obs.scans \in 1..(n - 1)
               /\ key.g_countdown_ms = START_COUNTDOWN_MS - obs.scans * KEY_SCAN_PERIOD_MS
        /\ key.g_car_state = "CAR_STATE_RUNNING" =>
               /\ key_car_should_run(key) = 1
               /\ obs.scans = n
               /\ key.g_countdown_ms = 0

\* the car runs at the end of a countdown during which the key was released
\* and pressed again
C39_Witness ==
    /\ obs.op = "key_scan"
    /\ key.g_car_state = "CAR_STATE_RUNNING"
    /\ key_car_should_run(key) = 1
    /\ obs.repressed
    /\ obs.scans = START_COUNTDOWN_MS \div KEY_SCAN_PERIOD_MS

(***************************************************************************)
(* C39 (as stated): key_car_should_run() becomes 1 exactly                 *)
(* START_COUNTDOWN_MS / 10 scans after the press was accepted: it is still *)
(* 0 until that many scans have followed the accepting scan.               *)
(***************************************************************************)
C39_RunsAfterFullCountdown ==
    key_car_should_run(key) = 1 =>
        obs.scans - 1 >= START_COUNTDOWN_MS \div KEY_SCAN_PERIOD_MS

(***************************************************************************)
(* SpecBluetooth: the command link.  The UART interrupt delivers one byte  *)
(* at a time to Bluetooth_RxHandler, at any point of the main loop; the    *)
(* main loop runs Bluetooth_Process statement by statement.  The sender    *)
(* transmits "$", the letters of "$GO" in their place, and the two         *)
(* terminators.  obs.frame is the buffer as the handler left it when it    *)
(* marked the frame complete, obs.dat the last byte delivered.             *)
(***************************************************************************)
InitBluetooth ==
    /\ pid = PID_Init(PID_SPEED_KP, PID_SPEED_KI, PID_SPEED_KD, PID_SPEED_OUT_MAX)
    /\ obs = [op |-> "Bluetooth_Init", dat |-> "NUL", frame |-> Bluetooth_Init.s_rx_buffer]
    /\ InitRest

Bluetooth_RxHandlerCall ==
    \E dat \in {"$", "G", "O", "LF", "CR"} :
        /\ dat = "G" => bt.s_rx_index = 1 /\ bt.s_rx_buffer[0] = "$"
        /\ dat = "O" => bt.s_rx_index = 2 /\ bt.s_rx_buffer[1] = "G"
        /\ bt' = Bluetooth_RxHandler(bt, dat)
        /\ obs' = [op |-> "Bluetooth_RxHandler", dat |-> dat,
                   frame |-> IF bt.s_rx_complete = 0 /\ bt'.s_rx_complete # 0
                             THEN bt'.s_rx_buffer ELSE obs.frame]
        /\ UNCHANGED <<pid, g_system, key, g_element, hw, g_inductor, g_encoder>>

\* part_000 313: the test of the complete flag
Bluetooth_ProcessTest ==
    /\ bt.pc = "return"
    /\ bt' = [bt EXCEPT !.pc = IF bt.s_rx_complete # 0 THEN "parse" ELSE "return"]
    /\ obs' = [obs EXCEPT !.op = "Bluetooth_Process"]
    /\ UNCHANGED <<pid, g_system, key, g_element, hw, g_inductor, g_encoder>>

\* part_000 316: parse_command and the command callback
Bluetooth_ProcessParse ==
    /\ bt.pc = "parse"
    /\ LET cmd == parse_command(bt.s_rx_buffer)
       IN  /\ g_system' = System_CmdCallback(g_system, cmd, 0)
           /\ hw' = System_CmdCallbackOutput(g_system, hw, cmd)
    /\ bt' = [bt EXCEPT !.pc = "clear", !.i = 0]
    /\ obs' = [obs EXCEPT !.op = "parse_command"]
    /\ UNCHANGED <<pid, key, g_element, g_inductor, g_encoder>>

\* part_000 319-322: one pass of the loop that clears the buffer
Bluetooth_ProcessClear ==
    /\ bt.pc = "clear"
    /\ bt' = IF bt.i < BLUETOOTH_RX_BUF_SIZE
             THEN [bt EXCEPT !.s_rx_buffer[bt.i] = "NUL", !.i = Wrap8(bt.i + 1)]
             ELSE [bt EXCEPT !.pc = "index"]
    /\ obs' = [obs EXCEPT !.op = "Bluetooth_Process"]
    /\ UNCHANGED <<pid, g_system, key, g_element, hw, g_inductor, g_encoder>>

\* part_000 323
Bluetooth_ProcessIndex ==
    /\ bt.pc = "index"
    /\ bt' = [bt EXCEPT !.s_rx_index = 0, !.pc = "complete"]
    /\ obs' = [obs EXCEPT !.op = "Bluetooth_Process"]
    /\ UNCHANGED <<pid, g_system, key, g_element, hw, g_inductor, g_encoder>>

\* part_000 324
Bluetooth_ProcessComplete ==
    /\ bt.pc = "complete"
    /\ bt' = [bt EXCEPT !.s_rx_complete = 0, !.pc = "return"]
    /\ obs' = [obs EXCEPT !.op = "Bluetooth_Process"]
    /\ UNCHANGED <<pid, g_system, key, g_element, hw, g_inductor, g_encoder>>

NextBluetooth ==
    \/ Bluetooth_RxHandlerCall
    \/ Bluetooth_ProcessTest
    \/ Bluetooth_ProcessParse
    \/ Bluetooth_ProcessClear
    \/ Bluetooth_ProcessIndex
    \/ Bluetooth_ProcessComplete

SpecBluetooth == InitBluetooth /\ [][NextBluetooth]_vars

(***************************************************************************)
(* C40: under any interleaving of Bluetooth_RxHandler with the main-loop   *)
(* Bluetooth_Process the receive index never exceeds                       *)
(* BLUETOOTH_RX_BUF_SIZE - 1, and from the moment a frame is marked        *)
(* complete until Bluetooth_Process clears the flag the handler writes     *)
(* nothing (the byte is dropped): until the main loop starts clearing, the *)
(* buffer is the NUL-terminated frame the handler completed, which is what *)
(* parse_command reads.                                                    *)
(***************************************************************************)
C40_FrameIntact ==
    /\ [](/\ bt.s_rx_index \in 0..(BLUETOOTH_RX_BUF_SIZE - 1)
          /\ (bt.s_rx_complete # 0 /\ bt.pc \in {"return", "parse"}) =>
                 /\ bt.s_rx_buffer = obs.frame
                 /\ bt.s_rx_buffer[bt.s_rx_index] = "NUL"
                 /\ \A k \in 0..(bt.s_rx_index - 1) : bt.s_rx_buffer[k] # "NUL")
    /\ [][(obs'.op = "Bluetooth_RxHandler" /\ bt.s_rx_complete # 0) => bt' = bt]_vars

\* a byte delivered, and dropped, while the main loop is about to parse a
\* frame that fills the buffer
C40_Witness ==
    /\ obs.op = "Bluetooth_RxHandler"
    /\ obs.dat = "$"
    /\ bt.pc = "parse"
    /\ bt.s_rx_complete = 1
    /\ bt.s_rx_index = BLUETOOTH_RX_BUF_SIZE - 1
    /\ bt.s_rx_buffer = obs.frame
=============================================================================
